---- MODULE Spec2Model ----
(***************************************************************************)
(* FLiSaMM: save profile and mod state manager.                            *)
(*                                                                         *)
(* State machine of SaveProfileManager / ModManager (src/managers.py) and  *)
(* of the FLiModManager handlers that drive them (src/main.py).            *)
(*                                                                         *)
(* A handler is one atomic action.  Inside a handler the statements run in *)
(* source order over a "run" record R:                                     *)
(*    R.S    the profiles (live files, in-memory metadata, persisted       *)
(*           metadata document, slot directories)                          *)
(*    R.k    countdown to an injected I/O failure (0: none, 1: the next    *)
(*           I/O operation fails)                                          *)
(*    R.ok   FALSE once an exception has been raised: every later          *)
(*           statement of the handler is skipped                           *)
(*    R.inj  the I/O operation an injected failure hit ("zip", "meta",     *)
(*           "extract"), or "none"                                         *)
(*    R.ret  the value returned by the last manager method                 *)
(***************************************************************************)
EXTENDS Integers, Sequences, FiniteSets, TLC

\* ---------------------------------------------------------------- bounds
MaxSlots == 2
MaxBackups == 1
MaxCounter == 2
MaxTime == 2
MaxFail == 1
MaxIO == 6
MaxCopy == 2
\* the wider and the narrower limits of the runs that work on backups
MaxBackupsWide == 2
MaxCounterWide == 3
MaxSlotsNarrow == 1
MaxProcs == 22

\* ------------------------------------------------------------- constants
Profiles == {"P1", "P2"}
\* the profile whose tab the session works in; the other profile is the
\* source and the destination of copies
Operated == {"P1"}
SlotIds == 1..MaxSlots
BackupIds == 1..MaxBackupsWide
NoSlot == 0
NoTs == 0
InitialCounter == 1
SlotNames == {"n1"}
\* the names a rename dialog returns, stripped
NewNames == {"n2"}
\* a backup's name is <<text, number>>: f"Backup - {counter:04d}" is
\* <<"Backup", counter>>, a name typed into the rename dialog is <<text, 0>>
NewBackupNames == {<<"n2", 0>>}

SaveFiles == {"gamedata.bin", "gamedata.binbak"}
Absent == "-"
\* the bytes a live save file may hold
ContentsOf(f) == IF f = "gamedata.bin" THEN {"c1", "c2"} ELSE {"c1"}

\* item.endswith("gamedata.bin")
IsGameData(f) == f = "gamedata.bin"
\* item.endswith("gamedata.bin") or item.endswith(".binbak")
IsSaveFile(f) == f = "gamedata.bin" \/ f = "gamedata.binbak"

NoFiles == [f \in SaveFiles |-> Absent]

\* an archive file on disk: absent, a complete zip, or a partial write
NoArchive == [st |-> "none", c |-> NoFiles]
BadArchive == [st |-> "bad", c |-> NoFiles]
OkArchive(c) == [st |-> "ok", c |-> c]

\* a slot directory: active_save.zip and <backup_uuid>.zip files
NoDir == [exists |-> FALSE, active |-> NoArchive, bk |-> [b \in BackupIds |-> NoArchive]]
EmptyDir == [exists |-> TRUE, active |-> NoArchive, bk |-> [b \in BackupIds |-> NoArchive]]

\* {"active_slot_uuid": None, "slots": {}}
NoSlots == [s \in {} |-> 0]
DefaultMetadata == [active |-> NoSlot, slots |-> NoSlots]

\* a JSON member that holds null (or is left out) is <<>>, one that holds
\* a value is <<value>>
DumpOpt(x, none) == IF x = none THEN <<>> ELSE <<x>>

\* mutant: every optional member reads back as None
LoadOptNone(j, none) == none

LoadOpt(j, none) == IF j = <<>> THEN none ELSE j[1]

\* json.dump(self.metadata, f, indent=4): the document's object members
JsonDump(m) ==
    [active_slot_uuid |-> DumpOpt(m.active, NoSlot),
     slots |-> [s \in DOMAIN m.slots |->
         [name |-> m.slots[s].name,
          backup_counter |-> m.slots[s].counter,
          active_save_timestamp |-> DumpOpt(m.slots[s].ts, NoTs),
          backups |-> [b \in DOMAIN m.slots[s].backups |->
              [timestamp |-> m.slots[s].backups[b].ts,
               name |-> m.slots[s].backups[b].name]]]]]

\* json.load(f): the dictionary a document parses to
JsonLoad(j) ==
    [active |-> LoadOpt(j.active_slot_uuid, NoSlot),
     slots |-> [s \in DOMAIN j.slots |->
         [name |-> j.slots[s].name,
          counter |-> j.slots[s].backup_counter,
          ts |-> LoadOpt(j.slots[s].active_save_timestamp, NoTs),
          backups |-> [b \in DOMAIN j.slots[s].backups |->
              [ts |-> j.slots[s].backups[b].timestamp,
               name |-> j.slots[s].backups[b].name]]]]]

\* metadata.json on disk: missing, a complete document, or a partial write
NoDoc == [st |-> "none", v |-> JsonDump(DefaultMetadata)]
BadDoc == [st |-> "bad", v |-> JsonDump(DefaultMetadata)]
\* metadata.json holds bytes that open(..., "r") cannot decode
GarbledDoc == [st |-> "garbled", v |-> JsonDump(DefaultMetadata)]

NoBackups == [b \in {} |-> 0]

\* a profile root: live save files, the manager's metadata, metadata.json,
\* the slot directories, whether the profile has a tab (a manager in
\* profile_managers), and the slots whose record in this manager's metadata
\* is the very dict object another manager's metadata holds
NewProfile == [live |-> NoFiles, mem |-> DefaultMetadata, doc |-> NoDoc,
               dirs |-> [s \in SlotIds |-> NoDir], tab |-> FALSE,
               shared |-> {}]

\* ------------------------------------------------------ the game tree
\* relative paths that mod archives write under the game path
PMods == "Game/Content/Paks/~mods/a.pak"
PPaks == "Game/Content/Paks/b.pak"
PExtra == "Extra/c.txt"
ModPaths == {PMods, PPaks, PExtra}
DisabledSuffix == ".disabled"
Suffixes == {"", DisabledSuffix}
FileNames == ModPaths \X Suffixes

UserModsDir == "Game/Content/Paks/~mods"
PaksDir == "Game/Content/Paks"
ExtraDir == "Extra"
\* os.path.dirname of a path under the game path
DirOf(path) ==
    IF path = PMods THEN UserModsDir ELSE IF path = PPaks THEN PaksDir ELSE ExtraDir
\* mutant: no path counts as being under ~mods
UnderUserModsNever(path) == FALSE

\* rel_path.lower().startswith("game/content/paks/~mods/")
UnderUserMods(path) == path = PMods

\* the zip files the user can pick; two of them have the same base name
Zips == {"A.zip", "B.zip", "alt/A.zip"}
NoMod == "-"
\* os.path.splitext(os.path.basename(zip_path))[0]
ZipName(z) == IF z = "B.zip" THEN "B" ELSE "A"
DirEntry(path) == [path |-> path, dir |-> TRUE, c |-> Absent]
FileEntry(path, c) == [path |-> path, dir |-> FALSE, c |-> c]
\* zf.infolist(): the entries in archive order, each file with the bytes
\* of its archive
ZipEntries(z) ==
    IF z = "A.zip" THEN <<DirEntry(UserModsDir), FileEntry(PMods, z)>>
    ELSE IF z = "B.zip" THEN <<FileEntry(PPaks, z), FileEntry(PMods, z)>>
    ELSE <<FileEntry(PExtra, z)>>
\* what a file holds after an extraction that failed part-way
Partial == "partial"
\* the game's own file at PPaks
Original == "original"

\* the executables in the game directory: EACLauncher.exe, its backup
\* EACLauncher.exe.bak and NFL1.exe, each by its content; path is whether
\* PathManager.game_path is set
Launcher == "eac"
GameExe == "nfl"
NewExe == [path |-> TRUE, launcher |-> Launcher, backup |-> Absent, game |-> GameExe]
\* no game directory is known
NoExe == [path |-> FALSE, launcher |-> Absent, backup |-> Absent, game |-> Absent]

NoManifest == [st |-> "none", v |-> <<>>]
BadManifest == [st |-> "bad", v |-> <<>>]
\* mods.json holds bytes that open(..., "r") cannot decode
GarbledManifest == [st |-> "garbled", v |-> <<>>]
\* a game installation with no mod installed: ~mods and Extra do not exist
NewGame == [tree |-> [fn \in FileNames |->
                         IF fn = <<PPaks, "">> THEN Original ELSE Absent],
            dirs |-> {PaksDir},
            mods |-> <<>>,
            manifest |-> NoManifest,
            exe |-> NewExe]

\* ------------------------------------------------------ the process poll
\* for _ in range(20): the processes one call of _check_game_process reads
Batch == 20
\* the delays of self.after(10, ...) and self.after(2000, ...)
ShortDelay == 10
LongDelay == 2000
\* the other processes of the machine
ProcCounts == (MaxProcs - 3)..MaxProcs
\* process_check_iterator is None
NoIterator == 0
\* the game process is not in the process list
NotRunning == 0

\* the poll after __init__: is the game in the process list and where (at),
\* the number of other processes (n), the list the iterator walks (snap: the
\* game's place in it), the processes already read (it), game_was_found_in_scan
\* and the delays of the pending self.after(..., self._check_game_process)
NewPoll == [n |-> MaxProcs, at |-> NotRunning, snap |-> NotRunning,
            it |-> NoIterator, found |-> FALSE, timers |-> <<LongDelay>>]

\* save_tab_view.get() when there is no tab
NoTab == "none"
\* the widgets: the current profile tab, the selected slot of each tab, the
\* load, copy and create-backup buttons of each tab (TRUE: state "normal"),
\* the switches and delete buttons of the mod list, the install button
\* and the EAC switch
NewUi == [cur |-> NoTab,
          sel |-> [p \in Profiles |-> NoSlot],
          btn |-> [p \in Profiles |-> [load |-> FALSE, copy |-> FALSE, backup |-> FALSE]],
          mods |-> TRUE, install |-> TRUE, eac |-> TRUE]

VARIABLES prof, game, isGameRunning, now, nfail, ncopy, last, cap, poll, ui

vars == <<prof, game, isGameRunning, now, nfail, ncopy, last, cap, poll, ui>>

\* the identifiers and the backup_counter values a run may use
DefaultCap == [slots |-> MaxSlots, backups |-> MaxBackups, counter |-> MaxCounter]
BackupCap == [slots |-> MaxSlotsNarrow, backups |-> MaxBackupsWide,
              counter |-> MaxCounterWide]
MetaCap == [slots |-> MaxSlotsNarrow, backups |-> MaxBackups, counter |-> MaxCounter]

\* ------------------------------------------------------- function helpers
Put(f, k, v) == [x \in DOMAIN f \cup {k} |-> IF x = k THEN v ELSE f[x]]
Del(f, k) == [x \in DOMAIN f \ {k} |-> f[x]]

Min(S) == CHOOSE x \in S : \A y \in S : x <= y

\* ------------------------------------------------------------ run records
Run(S, k) == [S |-> S, k |-> k, ok |-> TRUE, inj |-> "none", ret |-> "none",
             over |-> FALSE]
\* the run needs an identifier or a counter value beyond the model's bounds
Over(R) == [R EXCEPT !.ok = FALSE, !.over = TRUE]
Dec(k) == IF k = 0 THEN 0 ELSE k - 1
\* an exception raised by the code itself (KeyError, FileNotFoundError)
Raise(R) == [R EXCEPT !.ok = FALSE]
\* an injected I/O failure
Fail(R, io) == [R EXCEPT !.ok = FALSE, !.inj = io, !.k = 0]
Ret(R, v) == IF R.ok THEN [R EXCEPT !.ret = v] ELSE R

\* ------------------------------------------------- SaveProfileManager
\* has_active_save_file: a file ending in gamedata.bin is in the profile root
HasActiveSaveFile(P) == \E f \in SaveFiles : IsGameData(f) /\ P.live[f] # Absent

\* mutant: the zip loop takes gamedata.bin files only
LiveSaveFilesNoBak(P) == [f \in SaveFiles |-> IF IsGameData(f) THEN P.live[f] ELSE Absent]

\* what the zip loops of save_active_game_state / create_new_backup collect
LiveSaveFiles(P) == [f \in SaveFiles |-> IF IsSaveFile(f) THEN P.live[f] ELSE Absent]

\* _load_metadata: a missing or unparsable document is the empty default
LoadMetadata(doc) == IF doc.st = "ok" THEN JsonLoad(doc.v) ELSE DefaultMetadata

\* _save_metadata: open(..., "w") truncates, json.dump writes the document
SaveMetadata(R, p) ==
    IF ~R.ok THEN R
    ELSE IF R.k = 1 THEN Fail([R EXCEPT !.S[p].doc = BadDoc], "meta")
    ELSE [R EXCEPT !.S[p].doc = [st |-> "ok", v |-> JsonDump(R.S[p].mem)], !.k = Dec(R.k)]

\* mutant: active_save.zip is not written
ZipActiveSkipped(R, p, s) == R

\* zipfile.ZipFile(active_save.zip, "w") and the write loop: the file is
\* opened in place, so a failure part-way leaves a partial archive
ZipActive(R, p, s) ==
    IF ~R.ok THEN R
    ELSE IF ~R.S[p].dirs[s].exists THEN Raise(R)
    ELSE IF R.k = 1 THEN Fail([R EXCEPT !.S[p].dirs[s].active = BadArchive], "zip")
    ELSE [R EXCEPT !.S[p].dirs[s].active = OkArchive(LiveSaveFiles(R.S[p])),
                   !.k = Dec(R.k)]

\* zipfile.ZipFile(<backup_uuid>.zip, "w") and the write loop
ZipBackup(R, p, s, b) ==
    IF ~R.ok THEN R
    ELSE IF ~R.S[p].dirs[s].exists THEN Raise(R)
    ELSE IF R.k = 1 THEN Fail([R EXCEPT !.S[p].dirs[s].bk[b] = BadArchive], "zip")
    ELSE [R EXCEPT !.S[p].dirs[s].bk[b] = OkArchive(LiveSaveFiles(R.S[p])),
                   !.k = Dec(R.k)]

\* mutant: the archive is opened and nothing is extracted
ExtractNothing(R, p, arch) == R

\* zipfile.ZipFile(zip, "r").extractall(self.path): entries overwrite the
\* live files of the same name, other live files stay
ExtractAll(R, p, arch) ==
    IF ~R.ok THEN R
    ELSE IF arch.st # "ok" THEN Raise(R)
    ELSE IF R.k = 1 THEN Fail(R, "extract")
    ELSE [R EXCEPT !.S[p].live = [f \in SaveFiles |->
                       IF arch.c[f] # Absent THEN arch.c[f] ELSE R.S[p].live[f]],
                   !.k = Dec(R.k)]

\* the os.remove loop over gamedata.bin / .binbak items of the profile root
ClearLive(R, p) ==
    IF ~R.ok THEN R
    ELSE [R EXCEPT !.S[p].live = [f \in SaveFiles |->
                       IF IsSaveFile(f) THEN Absent ELSE R.S[p].live[f]]]

\* the managers whose metadata reach the dict object that is slot s of p
Holders(S, p, s) == IF s \in S[p].shared THEN Profiles ELSE {p}

\* an assignment into the slot's dict: every manager holding the object
\* sees the new record
SetRecord(R, p, s, rec) ==
    [R EXCEPT !.S = [q \in Profiles |->
                        IF q \in Holders(R.S, p, s)
                        THEN [R.S[q] EXCEPT !.mem.slots[s] = rec]
                        ELSE R.S[q]]]

\* metadata["slots"][s] of p is bound to another object, or unbound: the
\* old object is no longer held by two managers
Rebind(S, p, s) == [q \in Profiles |-> [S[q] EXCEPT !.shared = @ \ {s}]]

\* self.metadata["slots"][slot_uuid]["active_save_timestamp"] = now
SetTimestamp(R, p, s, t) ==
    IF ~R.ok THEN R
    ELSE IF s \notin DOMAIN R.S[p].mem.slots THEN Raise(R)
    ELSE SetRecord(R, p, s, [R.S[p].mem.slots[s] EXCEPT !.ts = t])

\* mutant: active_slot_uuid is left as it is
SetActiveSkipped(R, p, s) == R

\* self.metadata["active_slot_uuid"] = slot_uuid
SetActive(R, p, s) ==
    IF ~R.ok THEN R ELSE [R EXCEPT !.S[p].mem.active = s]

save_active_game_state(R, p, s, t) ==
    IF ~R.ok THEN R
    ELSE IF ~HasActiveSaveFile(R.S[p]) THEN R
    ELSE SaveMetadata(SetTimestamp(ZipActive(R, p, s), p, s, t), p)

\* mutant: the archive is extracted over the live files without the
\* os.remove loop
LoadWithoutClearing(R, p, s) ==
    IF ~R.ok THEN R
    ELSE IF R.S[p].dirs[s].active.st = "none" THEN Ret(R, "False")
    ELSE Ret(SaveMetadata(SetActive(
                 ExtractAll(R, p, R.S[p].dirs[s].active), p, s), p),
             "True")

load_active_save_for_slot(R, p, s) ==
    IF ~R.ok THEN R
    ELSE IF R.S[p].dirs[s].active.st = "none" THEN Ret(R, "False")
    ELSE Ret(SaveMetadata(SetActive(
                 ExtractAll(ClearLive(R, p), p, R.S[p].dirs[s].active), p, s), p),
             "True")

\* os.urandom(8).hex(): an identifier no profile uses
UsedSlots(S) == {s \in SlotIds : \E p \in Profiles :
                    \/ s \in DOMAIN S[p].mem.slots
                    \/ s \in DOMAIN S[p].doc.v.slots
                    \/ S[p].dirs[s].exists}
FreshSlots(S) == (1..cap.slots) \ UsedSlots(S)

UsedBackups(S) == {b \in BackupIds : \E p \in Profiles, s \in SlotIds :
                    \/ S[p].dirs[s].bk[b].st # "none"
                    \/ s \in DOMAIN S[p].mem.slots /\ b \in DOMAIN S[p].mem.slots[s].backups
                    \/ s \in DOMAIN S[p].doc.v.slots /\ b \in DOMAIN S[p].doc.v.slots[s].backups}
FreshBackups(S) == (1..cap.backups) \ UsedBackups(S)

\* slot_data["backups"][backup_uuid] = {...}; backup_counter += 1
AddBackup(R, p, s, b, name, t) ==
    IF ~R.ok THEN R
    ELSE IF s \notin DOMAIN R.S[p].mem.slots THEN Raise(R)
    ELSE SetRecord(R, p, s,
             [R.S[p].mem.slots[s] EXCEPT
                  !.backups = Put(@, b, [ts |-> t, name |-> name]),
                  !.counter = @ + 1])

create_new_backup(R, p, s, name, t) ==
    IF ~R.ok THEN R
    ELSE IF ~HasActiveSaveFile(R.S[p]) THEN Ret(R, "False")
    ELSE IF ~R.S[p].dirs[s].exists THEN Raise(R)
    ELSE IF FreshBackups(R.S) = {} THEN Over(R)
    ELSE IF s \in DOMAIN R.S[p].mem.slots /\ R.S[p].mem.slots[s].counter >= cap.counter
         THEN Over(R)
    ELSE LET b == Min(FreshBackups(R.S))
         IN Ret(SaveMetadata(AddBackup(ZipBackup(R, p, s, b), p, s, b, name, t), p),
                "True")

\* os.makedirs(slot_dir, exist_ok=True)
MakeSlotDir(R, p, s) ==
    IF ~R.ok \/ R.S[p].dirs[s].exists THEN R
    ELSE [R EXCEPT !.S[p].dirs[s] = EmptyDir]

\* self.metadata["slots"][uuid] = {...}
AddSlot(R, p, s, rec) ==
    IF ~R.ok THEN R
    ELSE [R EXCEPT !.S = [Rebind(R.S, p, s) EXCEPT
                              ![p].mem.slots = Put(R.S[p].mem.slots, s, rec)]]

initialize_from_game_save(R, p, name, t) ==
    IF ~R.ok THEN R
    ELSE IF FreshSlots(R.S) = {} THEN Over(R)
    ELSE LET s == Min(FreshSlots(R.S))
         IN save_active_game_state(
                SaveMetadata(
                    SetActive(
                        AddSlot(MakeSlotDir(R, p, s), p, s,
                                [name |-> name, counter |-> InitialCounter,
                                 backups |-> NoBackups, ts |-> t]),
                        p, s),
                    p),
                p, s, t)

\* dest_manager.metadata["slots"][slot_uuid] = slot_data_to_copy stores the
\* source's dict itself, not a copy of it
Share(R, s) ==
    IF ~R.ok THEN R
    ELSE [R EXCEPT !.S = [q \in Profiles |-> [R.S[q] EXCEPT !.shared = @ \cup {s}]]]

\* copy_slot_to: shutil.rmtree(dest_slot_dir), shutil.copytree(source, dest),
\* then the slot's record is stored in the destination and persisted
copy_slot_to(R, src, dst, s) ==
    IF ~R.ok THEN R
    ELSE LET R1 == IF R.S[dst].dirs[s].exists
                   THEN [R EXCEPT !.S[dst].dirs[s] = NoDir] ELSE R
             R2 == IF ~R1.S[src].dirs[s].exists THEN Raise(R1)
                   ELSE [R1 EXCEPT !.S[dst].dirs[s] = R1.S[src].dirs[s]]
             R3 == IF ~R2.ok THEN R2
                   ELSE IF s \notin DOMAIN R2.S[src].mem.slots THEN Raise(R2)
                   ELSE Share(AddSlot(R2, dst, s, R2.S[src].mem.slots[s]), s)
         IN SaveMetadata(R3, dst)

\* ------------------------------------------------------- FLiModManager
\* mutants: a handler without its "Action Blocked" check
LoadGateOff(running) == FALSE
DeleteGateOff(running, isLoaded) == FALSE

\* the "Action Blocked" checks on self.is_game_running
LoadGate(running) == running
ActivateGate(running) == running
DeleteGate(running, isLoaded) == isLoaded /\ running

\* del metadata["slots"][slot_uuid]["active_save_timestamp"] when present
DelTimestamp(R, p, s) ==
    IF ~R.ok THEN R
    ELSE IF s \notin DOMAIN R.S[p].mem.slots THEN Raise(R)
    ELSE SetRecord(R, p, s, [R.S[p].mem.slots[s] EXCEPT !.ts = NoTs])

\* _load_active_save_for_slot
ui_load_active_save_for_slot(R, p, s, t, running) ==
    IF LoadGate(running) THEN Ret(R, "Blocked")
    ELSE LET cur == R.S[p].mem.active
             R1 == IF cur # NoSlot /\ cur # s /\ HasActiveSaveFile(R.S[p])
                   THEN save_active_game_state(R, p, cur, t) ELSE R
         IN IF ~R1.ok THEN R1
            ELSE IF R1.S[p].dirs[s].active.st = "none"
            THEN Ret(SaveMetadata(DelTimestamp(SetActive(ClearLive(R1, p), p, s), p, s), p),
                     "Cleared")
            ELSE load_active_save_for_slot(R1, p, s)

\* mutant: the live save files are removed before the backup is extracted
ActivateClearsFirst(R, p, s, b, backupFirst, t, running) ==
    IF ActivateGate(running) THEN Ret(R, "Blocked")
    ELSE Ret(save_active_game_state(
                 SaveMetadata(SetActive(
                     ExtractAll(ClearLive(R, p), p, R.S[p].dirs[s].bk[b]), p, s), p),
                 p, s, t),
             "Activated")

\* _activate_backup; backupFirst is the answer to "Backup current progress first?"
ui_activate_backup(R, p, s, b, backupFirst, t, running) ==
    IF ActivateGate(running) THEN Ret(R, "Blocked")
    ELSE LET cur == R.S[p].mem.active
             R1 == IF cur # NoSlot /\ HasActiveSaveFile(R.S[p])
                   THEN IF cur \notin DOMAIN R.S[p].mem.slots THEN Raise(R)
                        ELSE IF backupFirst
                        THEN create_new_backup(R, p, cur, <<"Auto", t>>, t)
                        ELSE R
                   ELSE R
             R2 == IF ~R1.ok THEN R1 ELSE ExtractAll(R1, p, R1.S[p].dirs[s].bk[b])
         IN Ret(save_active_game_state(SaveMetadata(SetActive(R2, p, s), p), p, s, t),
                "Activated")

\* _create_new_slot with a non-blank name
ui_create_new_slot(R, p, name) ==
    IF FreshSlots(R.S) = {} THEN Over(R)
    ELSE SaveMetadata(AddSlot(R, p, Min(FreshSlots(R.S)),
                              [name |-> name, counter |-> InitialCounter,
                               backups |-> NoBackups, ts |-> NoTs]), p)

\* mutant: the slot directory is left on disk
RemoveSlotDirSkipped(R, p, s) == R

\* shutil.rmtree(slot_dir) when it is a directory
RemoveSlotDir(R, p, s) ==
    IF ~R.ok THEN R ELSE [R EXCEPT !.S[p].dirs[s] = NoDir]

\* del manager.metadata["slots"][slot_uuid]
DelSlot(R, p, s) ==
    IF ~R.ok THEN R
    ELSE IF s \notin DOMAIN R.S[p].mem.slots THEN Raise(R)
    ELSE [R EXCEPT !.S = [Rebind(R.S, p, s) EXCEPT
                              ![p].mem.slots = Del(R.S[p].mem.slots, s)]]

\* mutant: active_slot_uuid keeps the deleted slot
UnloadSlotKeepsActive(R, p) == ClearLive(R, p)

\* the loaded slot is deleted: active_slot_uuid = None, live files removed
UnloadSlot(R, p) == ClearLive(SetActive(R, p, NoSlot), p)

\* _delete_slot; yes: both confirmation dialogs are answered Yes
ui_delete_slot(R, p, s, yes, running) ==
    IF s \notin DOMAIN R.S[p].mem.slots THEN Raise(R)
    ELSE IF ~yes THEN Ret(R, "Declined")
    ELSE LET isLoaded == R.S[p].mem.active = s
         IN IF DeleteGate(running, isLoaded) THEN Ret(R, "Blocked")
            ELSE LET R1 == IF isLoaded THEN UnloadSlot(R, p) ELSE R
                 IN Ret(SaveMetadata(DelSlot(RemoveSlotDir(R1, p, s), p, s), p), "Deleted")

\* _create_new_backup on the selected slot
ui_create_new_backup(R, p, s, t) ==
    IF s \notin DOMAIN R.S[p].mem.slots THEN Raise(R)
    ELSE create_new_backup(R, p, s, <<"Backup", R.S[p].mem.slots[s].counter>>, t)

\* mutant: every backup archive of the slot is removed
DelBackupWipes(R, p, s, b) ==
    IF ~R.ok THEN R
    ELSE SetRecord([R EXCEPT !.S[p].dirs[s].bk = [x \in BackupIds |-> NoArchive]],
                   p, s, [R.S[p].mem.slots[s] EXCEPT !.backups = Del(@, b)])

\* os.remove(backup_zip) when it exists; del ...["backups"][backup_uuid]
DelBackup(R, p, s, b) ==
    IF ~R.ok THEN R
    ELSE IF s \notin DOMAIN R.S[p].mem.slots THEN Raise(R)
    ELSE IF b \notin DOMAIN R.S[p].mem.slots[s].backups THEN Raise(R)
    ELSE SetRecord([R EXCEPT !.S[p].dirs[s].bk[b] = NoArchive],
                   p, s, [R.S[p].mem.slots[s] EXCEPT !.backups = Del(@, b)])

\* _delete_backup
ui_delete_backup(R, p, s, b, yes) ==
    IF ~yes THEN Ret(R, "Declined")
    ELSE Ret(SaveMetadata(DelBackup(R, p, s, b), p), "Deleted")

\* _rename_slot: metadata["slots"][slot_uuid]["name"] = new_name.strip()
ui_rename_slot(R, p, s, name) ==
    IF s \notin DOMAIN R.S[p].mem.slots THEN Raise(R)
    ELSE Ret(SaveMetadata(
                 SetRecord(R, p, s, [R.S[p].mem.slots[s] EXCEPT !.name = name]), p),
             "Renamed")

\* _rename_backup: ...["backups"][backup_uuid]["name"] = new_name.strip()
ui_rename_backup(R, p, s, b, name) ==
    IF s \notin DOMAIN R.S[p].mem.slots THEN Raise(R)
    ELSE IF b \notin DOMAIN R.S[p].mem.slots[s].backups THEN Raise(R)
    ELSE Ret(SaveMetadata(
                 SetRecord(R, p, s,
                           [R.S[p].mem.slots[s] EXCEPT !.backups[b].name = name]), p),
             "Renamed")

\* SaveProfileManager.__init__: self.metadata = self._load_metadata(); the
\* except clause names json.JSONDecodeError and IOError, so the
\* UnicodeDecodeError of an undecodable file leaves the constructor and no
\* manager exists
OpenProfile(R, p) ==
    LET R1 == [R EXCEPT !.S = [q \in Profiles |->
                   IF q = p
                   THEN [R.S[q] EXCEPT !.mem = LoadMetadata(R.S[p].doc),
                                       !.shared = {}]
                   ELSE [R.S[q] EXCEPT !.shared = {}]]]
    IN IF R.ok /\ R.S[p].doc.st = "garbled" THEN Raise(R1) ELSE R1

\* _rebuild_save_management_tabs for one profile: a new SaveProfileManager
\* loads metadata.json; the profile gets a tab when it has slots or a live
\* save; _populate_save_profile_tab initializes a first slot from a live
\* save when no slot is active
RebuildOne(R, p, name, t) ==
    LET R0 == OpenProfile(R, p)
        m == R0.S[p].mem
        shown == DOMAIN m.slots # {} \/ HasActiveSaveFile(R.S[p])
        R1 == [R0 EXCEPT !.S[p].tab = R0.ok /\ shown]
        R2 == IF R1.ok /\ shown /\ HasActiveSaveFile(R1.S[p]) /\ m.active = NoSlot
              THEN initialize_from_game_save(R1, p, name, t)
              ELSE R1
    IN IF R2.ok THEN R2
       ELSE [R2 EXCEPT !.S[p].tab = FALSE, !.S[p].mem = LoadMetadata(R2.S[p].doc)]

Rebuild(R, name, t) == RebuildOne(RebuildOne(R, "P1", name, t), "P2", name, t)

\* mutant: the copy is made whatever the answer to "Replace it?"
CopyWithoutAsking(R, src, dst, s, replace, name, t) ==
    Ret(Rebuild([copy_slot_to(R, src, dst, s) EXCEPT !.ok = TRUE], name, t), "Copied")

\* _copy_slot after the destination was chosen; replace is the answer to
\* "Replace it?"; the tabs are rebuilt whether or not copy_slot_to raised
ui_copy_slot(R, src, dst, s, replace, name, t) ==
    IF s \in DOMAIN R.S[dst].mem.slots /\ ~replace THEN Ret(R, "Declined")
    ELSE LET R1 == copy_slot_to(R, src, dst, s)
             R2 == Rebuild([R1 EXCEPT !.ok = TRUE], name, t)
         IN IF R2.over THEN R2
            ELSE IF R1.ok THEN Ret(R2, "Copied")
            ELSE [R2 EXCEPT !.ok = R2.ok, !.ret = "CopyFailed"]

\* ------------------------------------------------------------ ModManager
Range(seq) == {seq[i] : i \in DOMAIN seq}
RemoveAt(seq, i) == SubSeq(seq, 1, i - 1) \o SubSeq(seq, i + 1, Len(seq))

\* _load_manifest: a missing or unparsable mods.json is the empty list
LoadManifest(manifest) == IF manifest.st = "ok" THEN manifest.v ELSE <<>>

\* _save_manifest: open(..., "w") truncates, json.dump writes the list
SaveManifest(R) ==
    IF ~R.ok THEN R
    ELSE IF R.k = 1 THEN Fail([R EXCEPT !.S.manifest = BadManifest], "manifest")
    ELSE [R EXCEPT !.S.manifest = [st |-> "ok", v |-> R.S.mods], !.k = Dec(R.k)]

\* ModManager.__init__: self.mods = [] and _load_manifest(), with the same
\* except clause as _load_metadata
OpenGame(R) ==
    IF ~R.ok THEN R
    ELSE IF R.S.manifest.st = "garbled" THEN Raise(R)
    ELSE [R EXCEPT !.S.mods = LoadManifest(R.S.manifest)]

\* mutant: the name check finds nothing
RegisteredNever(G, name) == FALSE

\* any(m["name"] == mod_name for m in self.mods)
Registered(G, name) == \E i \in DOMAIN G.mods : G.mods[i].name = name
\* the first mod of the list with that name
ModIndex(G, name) == Min({i \in DOMAIN G.mods : G.mods[i].name = name})

\* os.makedirs(<game>/Game/Content/Paks/~mods, exist_ok=True)
MakeUserModsDir(R) ==
    IF ~R.ok THEN R ELSE [R EXCEPT !.S.dirs = @ \cup {UserModsDir}]

\* zf.extract(file_info, game_path): creates the missing parent directories
\* and writes the file over whatever is at the path; a failure comes before
\* the file is opened, or part-way through writing it
Extract(R, e, partial) ==
    IF ~R.ok THEN R
    ELSE IF R.k = 1
         THEN IF partial
              THEN Fail([R EXCEPT !.S.dirs = @ \cup {DirOf(e.path)},
                                  !.S.tree[<<e.path, "">>] = Partial], "extract")
              ELSE Fail(R, "extract")
    ELSE [R EXCEPT !.S.dirs = @ \cup {DirOf(e.path)},
                   !.S.tree[<<e.path, "">>] = e.c,
                   !.k = Dec(R.k)]

\* the loop over zf.infolist(): the run and installed_files after it
RECURSIVE ExtractEntries(_, _, _, _)
ExtractEntries(R, entries, installed, partial) ==
    IF entries = <<>> \/ ~R.ok THEN [R |-> R, files |-> installed]
    ELSE LET e == Head(entries)
             R1 == IF UnderUserMods(e.path) THEN MakeUserModsDir(R) ELSE R
             R2 == Extract(R1, e, partial)
         IN IF e.dir THEN ExtractEntries(R, Tail(entries), installed, partial)
            ELSE ExtractEntries(R2, Tail(entries),
                                IF R2.ok THEN Append(installed, e.path) ELSE installed,
                                partial)

\* the except branch: os.remove of every path in installed_files that exists
RemoveInstalled(R, files) ==
    [R EXCEPT !.S.tree = [fn \in FileNames |->
                             IF fn[2] = "" /\ fn[1] \in Range(files)
                             THEN Absent ELSE R.S.tree[fn]]]

\* mutant: the new entry is registered as disabled
NewModDisabled(name, files) == [name |-> name, status |-> "disabled", files |-> files]

\* {"name": mod_name, "status": "enabled", "files": installed_files}
NewMod(name, files) == [name |-> name, status |-> "enabled", files |-> files]

install_mod(R, z, partial) ==
    IF Registered(R.S, ZipName(z)) THEN Ret(R, "Conflict")
    ELSE LET X == ExtractEntries(R, ZipEntries(z), <<>>, partial)
             R1 == IF X.R.ok
                   THEN [X.R EXCEPT !.S.mods = Append(@, NewMod(ZipName(z), X.files))]
                   ELSE X.R
             R2 == SaveManifest(R1)
         IN IF R2.ok THEN Ret(R2, "Installed")
            ELSE Ret(RemoveInstalled([R2 EXCEPT !.ok = TRUE], X.files), "Failed")

\* the paths of the archive, outside ~mods, whose directory does not exist
pre_install_check(G, z) ==
    LET Problem(e) == ~e.dir /\ ~UnderUserMods(e.path) /\ DirOf(e.path) \notin G.dirs
        found == SelectSeq(ZipEntries(z), Problem)
    IN [i \in DOMAIN found |-> found[i].path]

\* shutil.move(src, dst): dst is replaced when it exists
Move(tree, src, dst) == [tree EXCEPT ![dst] = tree[src], ![src] = Absent]

\* mutant: every file of the game tree is moved, tracked or not
MoveEveryFile(tree, files, isEnabled) ==
    LET src == IF isEnabled THEN "" ELSE DisabledSuffix
    IN [fn \in FileNames |->
           IF tree[<<fn[1], src>>] = Absent THEN tree[fn]
           ELSE IF fn[2] = src THEN Absent ELSE tree[<<fn[1], src>>]]

\* the loop over mod["files"]: a missing source is skipped
RECURSIVE MoveFiles(_, _, _)
MoveFiles(tree, files, isEnabled) ==
    IF files = <<>> THEN tree
    ELSE LET base == <<Head(files), "">>
             disabled == <<Head(files), DisabledSuffix>>
             src == IF isEnabled THEN base ELSE disabled
             dst == IF isEnabled THEN disabled ELSE base
         IN MoveFiles(IF tree[src] # Absent THEN Move(tree, src, dst) ELSE tree,
                      Tail(files), isEnabled)

\* mutant: the status is flipped only when every source file is there
ToggleNeedsFiles(R, name) ==
    IF ~Registered(R.S, name) THEN Ret(R, "False")
    ELSE LET i == ModIndex(R.S, name)
             mod == R.S.mods[i]
             isEnabled == mod.status = "enabled"
             src == IF isEnabled THEN "" ELSE DisabledSuffix
             R1 == [R EXCEPT !.S.tree = MoveFiles(@, mod.files, isEnabled),
                             !.S.mods[i].status =
                                 IF isEnabled THEN "disabled" ELSE "enabled"]
         IN IF \E f \in Range(mod.files) : R.S.tree[<<f, src>>] = Absent
            THEN Ret(R, "False")
            ELSE Ret(SaveManifest(R1), "True")

toggle_mod_status(R, name) ==
    IF ~Registered(R.S, name) THEN Ret(R, "False")
    ELSE LET i == ModIndex(R.S, name)
             mod == R.S.mods[i]
             isEnabled == mod.status = "enabled"
             R1 == [R EXCEPT !.S.tree = MoveFiles(@, mod.files, isEnabled),
                             !.S.mods[i].status =
                                 IF isEnabled THEN "disabled" ELSE "enabled"]
         IN Ret(SaveManifest(R1), "True")

\* mutant: only the canonical path of each tracked file is removed
DeleteCanonicalOnly(R, name) ==
    IF ~Registered(R.S, name) THEN Ret(R, "None")
    ELSE LET i == ModIndex(R.S, name)
             files == Range(R.S.mods[i].files)
             R1 == [R EXCEPT !.S.tree = [fn \in FileNames |->
                                            IF fn[1] \in files /\ fn[2] = "" THEN Absent
                                            ELSE R.S.tree[fn]],
                             !.S.mods = RemoveAt(@, i)]
         IN Ret(SaveManifest(R1), "None")

delete_mod(R, name) ==
    IF ~Registered(R.S, name) THEN Ret(R, "None")
    ELSE LET i == ModIndex(R.S, name)
             files == Range(R.S.mods[i].files)
             R1 == [R EXCEPT !.S.tree = [fn \in FileNames |->
                                            IF fn[1] \in files THEN Absent
                                            ELSE R.S.tree[fn]],
                             !.S.mods = RemoveAt(@, i)]
         IN Ret(SaveManifest(R1), "None")

\* _select_mod_file, for one chosen zip file: the warning, then install_mod
ui_select_mod_file(R, z, yes, partial) ==
    IF pre_install_check(R.S, z) # <<>> /\ ~yes THEN Ret(R, "Declined")
    ELSE install_mod(R, z, partial)

\* _delete_mod
ui_delete_mod(R, name, yes) ==
    IF ~yes THEN Ret(R, "Declined") ELSE delete_mod(R, name)

\* ------------------------------------------------------------- actions
\* the state after construction, before the first _rebuild_save_management_tabs;
\* no I/O failure is injected in the behaviours that start here
\* --------------------------------------------------- widgets and the poll
\* _on_slot_selected: the buttons of the tab follow is_game_running
on_slot_selected(U, S, p, s, running) ==
    IF ~S[p].tab THEN U
    ELSE [U EXCEPT !.sel[p] = s,
                   !.btn[p] = [load |-> ~running,
                               copy |-> ~running /\ \E q \in Profiles \ {p} : S[q].tab,
                               backup |-> /\ ~running
                                          /\ s = S[p].mem.active
                                          /\ HasActiveSaveFile(S[p])]]

\* the slot a tab shows first: the loaded slot, else the first slot
DefaultSlot(P) ==
    IF HasActiveSaveFile(P) /\ P.mem.active # NoSlot THEN P.mem.active
    ELSE IF DOMAIN P.mem.slots # {} THEN Min(DOMAIN P.mem.slots)
    ELSE NoSlot

\* the tab view shows tab p and calls _on_profile_tab_changed, which
\* returns at once when the tab has a selected slot
on_profile_tab_changed(U, S, p, running) ==
    LET U1 == [U EXCEPT !.cur = p]
    IN IF U.sel[p] # NoSlot \/ DefaultSlot(S[p]) = NoSlot THEN U1
       ELSE on_slot_selected(U1, S, p, DefaultSlot(S[p]), running)

\* _update_ui_for_game_state: the mod list is rebuilt, the install button and
\* the EAC switch are set, and the selected slot of the current tab is
\* selected again
update_ui_for_game_state(U, S, locked, running) ==
    LET U1 == [U EXCEPT !.mods = ~running, !.install = ~locked, !.eac = ~locked]
    IN IF U.cur # NoTab /\ U.sel[U.cur] # NoSlot
       THEN on_slot_selected(U1, S, U.cur, U.sel[U.cur], running)
       ELSE U1

\* the processes psutil.process_iter yields: the others and the game
ProcessCount(Q) == Q.n + (IF Q.snap = NotRunning THEN 0 ELSE 1)

\* _check_game_process up to its self.after: the poll and whether the scan
\* completed (StopIteration, from the iterator or raised on the game process)
check_game_process(Q0) ==
    LET Q == IF Q0.it = NoIterator
             THEN [Q0 EXCEPT !.snap = Q0.at, !.found = FALSE] ELSE Q0
        seen == Q.snap # NotRunning /\ Q.it < Q.snap /\ Q.snap <= Q.it + Batch
        ended == ProcessCount(Q) < Q.it + Batch
    IN IF seen THEN [Q |-> [Q EXCEPT !.it = NoIterator, !.found = TRUE], done |-> TRUE]
       ELSE IF ended THEN [Q |-> [Q EXCEPT !.it = NoIterator], done |-> TRUE]
       ELSE [Q |-> [Q EXCEPT !.it = Q.it + Batch], done |-> FALSE]

\* ---------------------------------------------------------- PathManager
\* is_eac_bypassed: the backup of the launcher exists in the game directory
is_eac_bypassed(G) == G.exe.path /\ G.exe.backup # Absent

\* shutil.move(eac_original, eac_backup): a rename inside the game directory
MoveToBackup(R) ==
    IF ~R.ok THEN R
    ELSE IF R.k = 1 THEN Fail(R, "move")
    ELSE [R EXCEPT !.S.exe.backup = R.S.exe.launcher,
                   !.S.exe.launcher = Absent,
                   !.k = Dec(R.k)]

\* shutil.copy(game_exe, eac_original); a copy that fails may leave a
\* partly written EACLauncher.exe
CopyGameExe(R, partial) ==
    IF ~R.ok THEN R
    ELSE IF R.k = 1
         THEN Fail(IF partial THEN [R EXCEPT !.S.exe.launcher = Partial] ELSE R, "copy")
    ELSE [R EXCEPT !.S.exe.launcher = R.S.exe.game, !.k = Dec(R.k)]

\* shutil.move(eac_backup, eac_original), replacing what is there
MoveBack(R) ==
    IF ~R.ok THEN R
    ELSE IF R.k = 1 THEN Fail(R, "move")
    ELSE [R EXCEPT !.S.exe.launcher = R.S.exe.backup,
                   !.S.exe.backup = Absent,
                   !.k = Dec(R.k)]

\* os.remove(eac_original)
RemoveLauncher(R) ==
    IF ~R.ok THEN R
    ELSE IF R.S.exe.launcher = Absent THEN Raise(R)
    ELSE IF R.k = 1 THEN Fail(R, "remove")
    ELSE [R EXCEPT !.S.exe.launcher = Absent, !.k = Dec(R.k)]

\* mutant: the except branch leaves the launcher under its backup name
KeepBackup(R) == R

\* the except branch of apply_eac_bypass
RestoreLauncher(R) ==
    IF R.S.exe.backup # Absent THEN MoveBack(R) ELSE R

apply_eac_bypass(R, partial) ==
    IF ~R.S.exe.path \/ is_eac_bypassed(R.S) THEN Ret(R, "Success")
    ELSE IF R.S.exe.launcher = Absent \/ R.S.exe.game = Absent THEN Ret(R, "NotFound")
    ELSE LET R1 == CopyGameExe(MoveToBackup(R), partial)
         IN IF R1.ok THEN Ret(R1, "Success")
            ELSE Ret(RestoreLauncher([R1 EXCEPT !.ok = TRUE]), "Failed")

remove_eac_bypass(R) ==
    IF ~R.S.exe.path \/ ~is_eac_bypassed(R.S) THEN Ret(R, "Success")
    ELSE LET R1 == MoveBack(RemoveLauncher(R))
         IN IF R1.ok THEN Ret(R1, "Success")
            ELSE Ret([R1 EXCEPT !.ok = TRUE], "Failed")

\* _toggle_eac_bypass; target is the value of the switch (config.json,
\* written after a success, is not part of the state)
ui_toggle_eac_bypass(R, target, partial) ==
    IF target = "on" THEN apply_eac_bypass(R, partial) ELSE remove_eac_bypass(R)

Init ==
    /\ prof = [p \in Profiles |-> NewProfile]
    /\ game = NewGame
    /\ cap = DefaultCap
    /\ isGameRunning = FALSE
    /\ now = 1
    /\ nfail = MaxFail
    /\ ncopy = 0
    /\ poll = NewPoll
    /\ ui = NewUi
    /\ last = [op |-> "init", s |-> NoSlot, m |-> NoMod, res |-> "none", io |-> "none"]

\* the same state, with up to MaxFail I/O failures still to come
InitIO ==
    /\ prof = [p \in Profiles |-> NewProfile]
    /\ game = NewGame
    /\ cap = DefaultCap
    /\ isGameRunning = FALSE
    /\ now = 1
    /\ nfail = 0
    /\ ncopy = 0
    /\ poll = NewPoll
    /\ ui = NewUi
    /\ last = [op |-> "init", s |-> NoSlot, m |-> NoMod, res |-> "none", io |-> "none"]

\* InitIO with one slot identifier and one copy between the profiles
InitMeta ==
    /\ prof = [p \in Profiles |-> NewProfile]
    /\ game = NewGame
    /\ cap = MetaCap
    /\ isGameRunning = FALSE
    /\ now = 1
    /\ nfail = 0
    /\ ncopy = MaxCopy - 1
    /\ poll = NewPoll
    /\ ui = NewUi
    /\ last = [op |-> "init", s |-> NoSlot, m |-> NoMod, res |-> "none", io |-> "none"]

\* the application starts on a profile and a game path whose documents are
\* missing, cut short by an interrupted write, or undecodable
InitOpen ==
    /\ \E d \in {NoDoc, BadDoc, GarbledDoc} :
           prof = [p \in Profiles |->
                      IF p \in Operated THEN [NewProfile EXCEPT !.doc = d]
                      ELSE NewProfile]
    /\ \E mf \in {NoManifest, BadManifest, GarbledManifest} :
           game = [NewGame EXCEPT !.manifest = mf]
    /\ cap = MetaCap
    /\ isGameRunning = FALSE
    /\ now = 1
    /\ nfail = MaxFail
    /\ ncopy = 0
    /\ poll = NewPoll
    /\ ui = NewUi
    /\ last = [op |-> "init", s |-> NoSlot, m |-> NoMod, res |-> "none", io |-> "none"]

\* Init, with the record of the last request switched off
InitQuiet ==
    /\ prof = [p \in Profiles |-> NewProfile]
    /\ game = NewGame
    /\ cap = DefaultCap
    /\ isGameRunning = FALSE
    /\ now = 1
    /\ nfail = MaxFail
    /\ ncopy = 0
    /\ poll = NewPoll
    /\ ui = NewUi
    /\ last = [op |-> "off", s |-> NoSlot, m |-> NoMod, res |-> "none", io |-> "none"]

\* Init, for one slot with up to MaxBackupsWide backups
InitBackups ==
    /\ prof = [p \in Profiles |-> NewProfile]
    /\ game = NewGame
    /\ cap = BackupCap
    /\ isGameRunning = FALSE
    /\ now = 1
    /\ nfail = MaxFail
    /\ ncopy = 0
    /\ poll = NewPoll
    /\ ui = NewUi
    /\ last = [op |-> "init", s |-> NoSlot, m |-> NoMod, res |-> "none", io |-> "none"]

\* the failure points an action may choose: none, or the k-th I/O operation
Ks == {k \in 0..MaxIO : k = 0 \/ nfail < MaxFail}

\* the request just served: handler, slot or mod, outcome and the I/O
\* operation that failed in it
Note(op, s, m, res, io) ==
    IF last.op = "off" THEN last
    ELSE [op |-> op, s |-> s, m |-> m, res |-> res, io |-> io]

\* what the handler returned, or that an exception left it
Outcome(R) == IF ~R.ok THEN "Raised" ELSE R.ret

Commit(R, k, op, s) ==
    /\ ~R.over
    /\ k > 0 => R.inj # "none"
    /\ prof' = R.S
    /\ nfail' = IF R.inj # "none" THEN nfail + 1 ELSE nfail
    /\ last' = Note(op, s, NoMod, Outcome(R), R.inj)
    /\ ncopy' = IF op \in {"copy_in", "copy_out"} THEN ncopy + 1 ELSE ncopy
    /\ UNCHANGED <<game, isGameRunning, now, cap, poll, ui>>

Slots(p) == DOMAIN prof[p].mem.slots
Backups(p, s) == DOMAIN prof[p].mem.slots[s].backups

\* the application starts, or the game path is changed
RebuildTabs ==
    \E k \in Ks, name \in SlotNames :
        Commit(Rebuild(Run(prof, k), name, now), k, "rebuild", NoSlot)

UiLoadSlot ==
    \E p \in Operated, k \in Ks : prof[p].tab /\ \E s \in Slots(p) :
        Commit(ui_load_active_save_for_slot(Run(prof, k), p, s, now, isGameRunning),
               k, "load", s)

UiActivateBackup ==
    \E p \in Operated, k \in Ks, backupFirst \in BOOLEAN :
        prof[p].tab /\ \E s \in Slots(p) : \E b \in Backups(p, s) :
            Commit(ui_activate_backup(Run(prof, k), p, s, b, backupFirst, now,
                                      isGameRunning),
                   k, "activate", s)

UiCreateSlot ==
    \E p \in Operated, k \in Ks, name \in SlotNames : prof[p].tab /\
        Commit(ui_create_new_slot(Run(prof, k), p, name), k, "create_slot", NoSlot)

UiDeleteSlot ==
    \E p \in Operated, k \in Ks, yes \in BOOLEAN : prof[p].tab /\ \E s \in Slots(p) :
        Commit(ui_delete_slot(Run(prof, k), p, s, yes, isGameRunning),
               k, "delete_slot", s)

UiCreateBackup ==
    \E p \in Operated, k \in Ks : prof[p].tab /\ \E s \in Slots(p) :
        Commit(ui_create_new_backup(Run(prof, k), p, s, now), k, "create_backup", s)

UiDeleteBackup ==
    \E p \in Operated, k \in Ks, yes \in BOOLEAN :
        prof[p].tab /\ \E s \in Slots(p) : \E b \in Backups(p, s) :
            Commit(ui_delete_backup(Run(prof, k), p, s, b, yes), k, "delete_backup", s)

UiCopySlot ==
    \E src \in Profiles, dst \in Profiles, k \in Ks, replace \in BOOLEAN,
       name \in SlotNames :
        ncopy < MaxCopy /\ src # dst /\ prof[src].tab /\ \E s \in Slots(src) :
            Commit(ui_copy_slot(Run(prof, k), src, dst, s, replace, name, now),
                   k, IF dst \in Operated THEN "copy_in" ELSE "copy_out", s)

UiRenameSlot ==
    \E p \in Operated, k \in Ks, name \in NewNames : prof[p].tab /\ \E s \in Slots(p) :
        Commit(ui_rename_slot(Run(prof, k), p, s, name), k, "rename_slot", s)

UiRenameBackup ==
    \E p \in Operated, k \in Ks, name \in NewBackupNames :
        prof[p].tab /\ \E s \in Slots(p) : \E b \in Backups(p, s) :
            Commit(ui_rename_backup(Run(prof, k), p, s, b, name), k, "rename_backup", s)

\* the game process, while it runs, writes one live save file
GameWrites ==
    /\ isGameRunning
    /\ \E p \in Operated, f \in SaveFiles : \E c \in ContentsOf(f) :
           prof' = [prof EXCEPT ![p].live[f] = c]
    /\ last' = Note("game", NoSlot, NoMod, "none", "none")
    /\ UNCHANGED <<game, isGameRunning, now, nfail, ncopy, cap, poll, ui>>

\* _check_game_process completes a scan and finds the flag changed; the
\* scan itself, batch by batch, is CheckGameProcess
SetGameRunning ==
    /\ isGameRunning' = ~isGameRunning
    /\ last' = Note("poll", NoSlot, NoMod, "none", "none")
    /\ UNCHANGED <<prof, game, now, nfail, ncopy, cap, poll, ui>>

\* datetime.now() advances
Tick ==
    /\ now < MaxTime
    /\ now' = now + 1
    /\ last' = Note("tick", NoSlot, NoMod, "none", "none")
    /\ UNCHANGED <<prof, game, isGameRunning, nfail, ncopy, cap, poll, ui>>

\* a handler of the mod list has run
CommitMod(R, k, op, m) ==
    /\ k > 0 => R.inj # "none"
    /\ game' = R.S
    /\ nfail' = IF R.inj # "none" THEN nfail + 1 ELSE nfail
    /\ last' = Note(op, NoSlot, m, Outcome(R), R.inj)
    /\ UNCHANGED <<prof, isGameRunning, now, ncopy, cap, poll, ui>>

\* the install button is disabled while the game runs
UiSelectModFile ==
    \E z \in Zips, k \in Ks, yes \in BOOLEAN, partial \in BOOLEAN :
        /\ ~isGameRunning
        /\ CommitMod(ui_select_mod_file(Run(game, k), z, yes, partial), k, "install", z)

\* the switch of a listed mod, disabled while the game runs
UiToggleMod ==
    \E i \in DOMAIN game.mods, k \in Ks :
        /\ ~isGameRunning
        /\ CommitMod(toggle_mod_status(Run(game, k), game.mods[i].name),
                     k, "toggle", game.mods[i].name)

\* the delete button of a listed mod, disabled while the game runs
UiDeleteMod ==
    \E i \in DOMAIN game.mods, k \in Ks, yes \in BOOLEAN :
        /\ ~isGameRunning
        /\ CommitMod(ui_delete_mod(Run(game, k), game.mods[i].name, yes),
                     k, "delete_mod", game.mods[i].name)

\* the EAC bypass switch, disabled while the game runs
UiToggleEacBypass ==
    \E target \in {"on", "off"}, k \in Ks, partial \in BOOLEAN :
        /\ ~isGameRunning
        /\ partial => k > 0
        /\ CommitMod(ui_toggle_eac_bypass(Run(game, k), target, partial),
                     k, "eac_" \o target, NoMod)

\* the pending callback fires: _check_game_process
CheckGameProcess ==
    /\ poll.timers # <<>>
    /\ LET X == check_game_process(poll)
           changed == X.done /\ X.Q.found # isGameRunning
       IN /\ poll' = [X.Q EXCEPT !.timers = Append(Tail(poll.timers),
                                       IF X.done THEN LongDelay ELSE ShortDelay)]
          /\ isGameRunning' = IF changed THEN X.Q.found ELSE isGameRunning
          /\ ui' = IF changed
                   THEN update_ui_for_game_state(ui, prof, X.Q.found, X.Q.found)
                   ELSE ui
    /\ last' = Note("poll", NoSlot, NoMod, "none", "none")
    /\ UNCHANGED <<prof, game, now, nfail, ncopy, cap>>

\* the game is started, somewhere in the process list, or exits
GameProcess ==
    /\ \E a \in (0..(poll.n + 1)) \ {poll.at} :
           /\ (poll.at = NotRunning) # (a = NotRunning)
           /\ poll' = [poll EXCEPT !.at = a]
    /\ last' = Note("game", NoSlot, NoMod, "none", "none")
    /\ UNCHANGED <<prof, game, isGameRunning, now, nfail, ncopy, cap, ui>>

\* the user clicks a slot of the current tab
SelectSlot ==
    /\ ui.cur # NoTab
    /\ \E s \in DOMAIN prof[ui.cur].mem.slots :
           ui' = on_slot_selected(ui, prof, ui.cur, s, isGameRunning)
    /\ last' = Note("select", NoSlot, NoMod, "none", "none")
    /\ UNCHANGED <<prof, game, isGameRunning, now, nfail, ncopy, cap, poll>>

\* the user clicks another profile tab
SelectTab ==
    /\ \E p \in Profiles \ {ui.cur} :
           /\ prof[p].tab
           /\ ui' = on_profile_tab_changed(ui, prof, p, isGameRunning)
    /\ last' = Note("tab", NoSlot, NoMod, "none", "none")
    /\ UNCHANGED <<prof, game, isGameRunning, now, nfail, ncopy, cap, poll>>

\* _update_all_paths_and_ui: a new ModManager reads mods.json
UpdateAllPaths ==
    /\ game' = OpenGame(Run(game, 0)).S
    /\ last' = Note("paths", NoSlot, NoMod, Outcome(OpenGame(Run(game, 0))), "none")
    /\ UNCHANGED <<prof, isGameRunning, now, nfail, ncopy, cap, poll, ui>>

\* the handlers of one profile tab, the game and the process poll
Next ==
    \/ RebuildTabs
    \/ UiLoadSlot
    \/ UiActivateBackup
    \/ UiCreateSlot
    \/ UiDeleteSlot
    \/ UiCreateBackup
    \/ UiDeleteBackup
    \/ GameWrites
    \/ SetGameRunning

NextCopy == Next \/ UiCopySlot

NextTime == Next \/ Tick

\* one profile tab, no I/O failure
Spec == Init /\ [][Next]_vars
\* one profile tab, with injected I/O failures
SpecIO == InitIO /\ [][Next]_vars
\* one profile tab and copies between the two profiles
SpecCopy == InitQuiet /\ [][NextCopy]_vars
\* one profile tab with an advancing clock
SpecTime == Init /\ [][NextTime]_vars

\* the handlers of the mod list and the process poll
NextMod ==
    \/ UiSelectModFile
    \/ UiToggleMod
    \/ UiDeleteMod
    \/ UpdateAllPaths
    \/ SetGameRunning

\* the bypass switch next to the mod list; without a game path there is no
\* ModManager and no mod list
NextEac ==
    \/ UiToggleEacBypass
    \/ SetGameRunning
    \/ (game.exe.path /\ UiSelectModFile)
    \/ (game.exe.path /\ UiToggleMod)
    \/ (game.exe.path /\ UiDeleteMod)

NextOpen == Next \/ UpdateAllPaths

\* a game directory with or without its executables, or no game directory,
\* and up to MaxFail I/O failures to come
InitEac ==
    /\ prof = [p \in Profiles |-> NewProfile]
    /\ \E x \in {NoExe} \cup {[NewExe EXCEPT !.launcher = l, !.game = g] :
                                  l \in {Absent, Launcher}, g \in {Absent, GameExe}} :
           game = [NewGame EXCEPT !.exe = x]
    /\ cap = DefaultCap
    /\ isGameRunning = FALSE
    /\ now = 1
    /\ nfail = 0
    /\ ncopy = 0
    /\ poll = NewPoll
    /\ ui = NewUi
    /\ last = [op |-> "init", s |-> NoSlot, m |-> NoMod, res |-> "none", io |-> "none"]

SpecEac == InitEac /\ [][NextEac]_vars

\* two profiles that each hold a live save, after the first
\* _rebuild_save_management_tabs: each has a tab and one slot, the first tab
\* is shown with its loaded slot selected
PolledProfiles ==
    Rebuild(Run([p \in Profiles |->
                    [NewProfile EXCEPT !.live = [f \in SaveFiles |->
                         IF IsGameData(f) THEN "c1" ELSE Absent]]], 0),
            "n1", 1).S

InitPoll ==
    /\ cap = DefaultCap
    /\ prof = PolledProfiles
    /\ game = NewGame
    /\ isGameRunning = FALSE
    /\ now = 1
    /\ nfail = MaxFail
    /\ \E n \in ProcCounts : poll = [NewPoll EXCEPT !.n = n]
    /\ ui = on_profile_tab_changed(NewUi, prof, "P1", FALSE)
    /\ ncopy = 0
    /\ last = [op |-> "init", s |-> NoSlot, m |-> NoMod, res |-> "none", io |-> "none"]

NextPoll ==
    \/ CheckGameProcess
    \/ GameProcess
    \/ SelectSlot
    \/ SelectTab

SpecPoll == InitPoll /\ [][NextPoll]_vars

\* one profile tab and the game path, opened on damaged documents
SpecOpen == InitOpen /\ [][NextOpen]_vars

NextMeta == NextCopy \/ UiRenameSlot \/ UiRenameBackup

\* one slot identifier, renames, copies and injected I/O failures
SpecMeta == InitMeta /\ [][NextMeta]_vars
\* one profile tab with one slot and several backups
SpecBackups == InitBackups /\ [][Next]_vars
\* the mod list, no I/O failure
SpecMod == Init /\ [][NextMod]_vars
\* the mod list, with injected I/O failures
SpecModIO == InitIO /\ [][NextMod]_vars

\* ------------------------------------------------------------- claims
C_ActiveSlotValid(m) == m.active = NoSlot \/ m.active \in DOMAIN m.slots

\* C1: after any sequence of operations on a profile, active_slot_uuid is
\* null or a key of slots, in the manager's metadata and in the persisted
\* document
C1_ActiveSlotNullOrKey ==
    \A p \in Profiles :
        /\ C_ActiveSlotValid(prof[p].mem)
        /\ C_ActiveSlotValid(LoadMetadata(prof[p].doc))

\* the loaded slot of P1 was deleted while another slot stays, and P2
\* holds a copied slot
C1_Witness ==
    /\ prof["P1"].mem.active = NoSlot
    /\ DOMAIN prof["P1"].mem.slots # {}
    /\ DOMAIN prof["P2"].mem.slots # {}

\* C2: at every operation boundary a slot's record has an
\* active_save_timestamp iff its directory holds active_save.zip
C2_TimestampIffArchive ==
    \A p \in Profiles : \A s \in DOMAIN prof[p].mem.slots :
        (prof[p].mem.slots[s].ts # NoTs) <=> (prof[p].dirs[s].active.st # "none")

\* P1 has a slot with an archive and a loaded slot without one, and P2
\* holds a copied slot with an archive
C2_Witness ==
    /\ \E s1 \in DOMAIN prof["P1"].mem.slots, s2 \in DOMAIN prof["P1"].mem.slots :
           /\ prof["P1"].mem.slots[s1].ts # NoTs
           /\ prof["P1"].mem.slots[s2].ts = NoTs
           /\ prof["P1"].mem.active = s2
    /\ \E s \in DOMAIN prof["P2"].mem.slots : prof["P2"].mem.slots[s].ts # NoTs

\* save_active_game_state(S) followed by load_active_save_for_slot(S), run
\* from the current state
C_SaveThenLoad(p, s) ==
    LET R1 == save_active_game_state(Run(prof, 0), p, s, now)
    IN load_active_save_for_slot([R1 EXCEPT !.ok = TRUE], p, s)

\* C3: for every slot and every live save (a gamedata.bin file exists),
\* save_active_game_state(S) then load_active_save_for_slot(S) leaves the
\* live files, names and contents, as they were before the save
C3_SaveThenLoadRestoresLive ==
    \A p \in Operated : \A s \in DOMAIN prof[p].mem.slots :
        HasActiveSaveFile(prof[p]) => C_SaveThenLoad(p, s).S[p].live = prof[p].live

\* a slot whose archive differs from the live files, which include a
\* .binbak file: the save rewrites the archive and the load rewrites the
\* live files
C3_Witness ==
    \E p \in Operated : \E s \in DOMAIN prof[p].mem.slots :
        /\ HasActiveSaveFile(prof[p])
        /\ prof[p].live["gamedata.binbak"] # Absent
        /\ prof[p].dirs[s].active.st = "ok"
        /\ prof[p].dirs[s].active.c # prof[p].live
        /\ C_SaveThenLoad(p, s).ret = "True"
        /\ C_SaveThenLoad(p, s).S[p].dirs[s].active.c = prof[p].live

\* toggle_mod_status(name) called twice from the current state
C_ToggleTwice(name) ==
    toggle_mod_status(toggle_mod_status(Run(game, 0), name), name)

\* which of path and path + ".disabled" exist
C_Arrangement(tree, path) == {x \in Suffixes : tree[<<path, x>>] # Absent}

\* C4: for every registered mod, toggle_mod_status(name) twice returns the
\* mod's status and the arrangement of its files to what they were
C4_ToggleTwiceRestores ==
    \A i \in DOMAIN game.mods :
        LET G2 == C_ToggleTwice(game.mods[i].name).S
        IN /\ G2.mods[i].status = game.mods[i].status
           /\ \A path \in Range(game.mods[i].files) :
                  C_Arrangement(G2.tree, path) = C_Arrangement(game.tree, path)

\* C5: an install_mod that fails after the name check returns
\* success=false, leaves no file it wrote on disk, and leaves the mod in
\* neither self.mods nor mods.json
C5_FailedInstallLeavesNothing ==
    [][(last'.op = "install" /\ last'.io # "none")
          => /\ last'.res = "Failed"
             /\ \A fn \in FileNames :
                    game'.tree[fn] # game.tree[fn] => game'.tree[fn] \notin {last'.m, Partial}
             /\ ~Registered(game', ZipName(last'.m))
             /\ \A i \in DOMAIN LoadManifest(game'.manifest) :
                    LoadManifest(game'.manifest)[i].name # ZipName(last'.m)]_vars

\* C6: after a failed install_mod the files of the game tree and their
\* contents are those before the call
C6_FailedInstallRestoresTree ==
    [][(last'.op = "install" /\ last'.res = "Failed") => game'.tree = game.tree]_vars

\* C7: the persisted document never comes to record a timestamp or a
\* backup whose archive has not been written
C7_MetadataAfterFiles ==
    [][\A p \in Profiles :
         LET old == LoadMetadata(prof[p].doc)
             new == LoadMetadata(prof'[p].doc)
         IN \A s \in DOMAIN new.slots :
              /\ (/\ new.slots[s].ts # NoTs
                  /\ (s \notin DOMAIN old.slots \/ old.slots[s].ts # new.slots[s].ts))
                     => prof'[p].dirs[s].active.st = "ok"
              /\ \A b \in DOMAIN new.slots[s].backups :
                     (s \notin DOMAIN old.slots \/ b \notin DOMAIN old.slots[s].backups)
                         => prof'[p].dirs[s].bk[b].st = "ok"]_vars

\* C8: when the archive write of save_active_game_state or
\* create_new_backup fails part-way, every archive that existed before the
\* call is still there with its content
C8_FailedWriteKeepsArchives ==
    [][last'.io = "zip"
          => \A p \in Profiles : \A s \in SlotIds :
                 /\ prof[p].dirs[s].active.st = "ok"
                        => prof'[p].dirs[s].active = prof[p].dirs[s].active
                 /\ \A b \in BackupIds :
                        prof[p].dirs[s].bk[b].st = "ok"
                            => prof'[p].dirs[s].bk[b] = prof[p].dirs[s].bk[b]]_vars

\* C9: while is_game_running is true a request to load a slot or to
\* activate a backup is rejected as blocked and changes nothing
C9_LoadAndActivateBlocked ==
    [][(isGameRunning /\ last'.op \in {"load", "activate"})
          => (last'.res = "Blocked" /\ UNCHANGED <<prof, isGameRunning>>)]_vars

\* a load request was blocked that would have replaced the live files
C9_Witness ==
    /\ isGameRunning
    /\ last.op = "load" /\ last.res = "Blocked"
    /\ prof["P1"].dirs[last.s].active.st = "ok"
    /\ prof["P1"].dirs[last.s].active.c # prof["P1"].live

C11_DeleteBackupFrame ==
    [][(last'.op = "delete_backup" /\ last'.res = "Deleted")
          => LET s == last'.s
                 old == prof["P1"]
                 new == prof'["P1"]
             IN \E b \in DOMAIN old.mem.slots[s].backups :
                    /\ new.mem.slots[s].backups = Del(old.mem.slots[s].backups, b)
                    /\ LoadMetadata(new.doc).slots[s].backups = new.mem.slots[s].backups
                    /\ new.dirs[s].bk = [old.dirs[s].bk EXCEPT ![b] = NoArchive]
                    /\ new.dirs[s].active = old.dirs[s].active
                    /\ new.mem.slots[s].ts = old.mem.slots[s].ts
                    /\ new.mem.slots[s].counter = old.mem.slots[s].counter
                    /\ new.live = old.live]_vars

\* one of two backups was deleted: the other one, taken from the live files
\* the slot's active save also holds, is still there
C11_Witness ==
    /\ last.op = "delete_backup" /\ last.res = "Deleted"
    /\ \E b \in DOMAIN prof["P1"].mem.slots[last.s].backups :
           /\ prof["P1"].dirs[last.s].bk[b] = OkArchive(prof["P1"].live)
           /\ prof["P1"].dirs[last.s].active = OkArchive(prof["P1"].live)
           /\ \E b2 \in BackupIds \ {b} : prof["P1"].dirs[last.s].bk[b2] = NoArchive
    /\ prof["P1"].mem.slots[last.s].counter = MaxCounterWide

C_UniqueNames(mods) ==
    \A i \in DOMAIN mods, j \in DOMAIN mods : mods[i].name = mods[j].name => i = j

\* C12: no two registry entries have the same name, and install_mod of an
\* archive whose name is registered returns success=false and leaves the
\* registry, the manifest and the game tree unchanged
C12_UniqueNamesAndConflict ==
    [][/\ C_UniqueNames(game'.mods)
       /\ C_UniqueNames(LoadManifest(game'.manifest))
       /\ (/\ last'.op = "install" /\ last'.res # "Declined"
           /\ Registered(game, ZipName(last'.m)))
              => (last'.res = "Conflict" /\ game' = game)]_vars

\* alt/A.zip was rejected because mod A, installed from A.zip, is registered
C12_Witness ==
    /\ last.op = "install" /\ last.m = "alt/A.zip" /\ last.res = "Conflict"
    /\ Len(game.mods) = 2
    /\ game.tree[<<PMods, "">>] = "A.zip"
    /\ game.tree[<<PExtra, "">>] = Absent

\* C13: toggle_mod_status(M) and delete_mod(M) change only paths of M's
\* files list (each path and its .disabled variant) and no other mod's
\* registry entry
C13_ToggleDeleteFrame ==
    [][(last'.op \in {"toggle", "delete_mod"} /\ last'.res # "Declined")
          => LET i == ModIndex(game, last'.m)
                 files == Range(game.mods[i].files)
             IN /\ \A fn \in FileNames :
                       fn[1] \notin files => game'.tree[fn] = game.tree[fn]
                /\ game'.dirs = game.dirs
                /\ IF last'.op = "toggle"
                   THEN /\ Len(game'.mods) = Len(game.mods)
                        /\ \A j \in DOMAIN game.mods :
                               j # i => game'.mods[j] = game.mods[j]
                        /\ game'.mods[i].name = game.mods[i].name
                        /\ game'.mods[i].files = game.mods[i].files
                   ELSE game'.mods = RemoveAt(game.mods, i)]_vars

\* mod A was toggled off while mod B, which tracks another file, is enabled
\* with its file in place
C13_Witness ==
    /\ last.op = "toggle" /\ last.m = "A" /\ last.res = "True"
    /\ game.tree[<<PMods, DisabledSuffix>>] # Absent
    /\ \E j \in DOMAIN game.mods :
           /\ game.mods[j].name = "B" /\ game.mods[j].status = "enabled"
           /\ game.tree[<<PPaks, "">>] = "B.zip"

\* C14: a mutating operation of SaveProfileManager reports an I/O failure
\* as a returned value; no handler step ends by an exception that leaves
\* the operation
C14_FailuresAreReturned ==
    [][last'.io # "none" => last'.res # "Raised"]_vars

\* copy_slot_to(dest, slot) called on the source manager from the current
\* state
C_Copy(src, dst, s) == copy_slot_to(Run(prof, 0), src, dst, s)

\* C15: for every slot in the source's metadata copy_slot_to completes, the
\* destination then holds the slot's directory and record as the source
\* has them, and the destination's active_slot_uuid, other slots and live
\* files and the whole source profile are unchanged
C15_CopyCompletes ==
    \A src \in Profiles, dst \in Profiles : \A s \in DOMAIN prof[src].mem.slots :
        src # dst =>
            LET R == C_Copy(src, dst, s)
            IN /\ R.ok
               /\ R.S[dst].dirs[s] = prof[src].dirs[s]
               /\ R.S[dst].mem.slots[s] = prof[src].mem.slots[s]
               /\ LoadMetadata(R.S[dst].doc).slots[s] = prof[src].mem.slots[s]
               /\ R.S[dst].mem.active = prof[dst].mem.active
               /\ R.S[dst].live = prof[dst].live
               /\ \A s2 \in DOMAIN prof[dst].mem.slots :
                      s2 # s => /\ R.S[dst].mem.slots[s2] = prof[dst].mem.slots[s2]
                                /\ R.S[dst].dirs[s2] = prof[dst].dirs[s2]
               /\ R.S[src] = prof[src]

\* _copy_slot from the current state with "Replace it?" answered as given
C_CopyFlow(src, dst, s, replace) ==
    ui_copy_slot(Run(prof, 0), src, dst, s, replace, "n1", now)

\* C16: when the destination already has the slot and the caller declines
\* the replacement, the copy flow writes nothing: slot directories,
\* documents, metadata and live files of both profiles are as before
C16_DeclinedCopyWritesNothing ==
    \A src \in Profiles, dst \in Profiles :
        \A s \in DOMAIN prof[src].mem.slots \cap DOMAIN prof[dst].mem.slots :
            (src # dst /\ prof[src].tab) =>
                /\ C_CopyFlow(src, dst, s, FALSE).ret = "Declined"
                /\ C_CopyFlow(src, dst, s, FALSE).S = prof

\* both profiles hold the slot, with different content, so that a confirmed
\* copy would replace the destination's directory
C16_Witness ==
    \E s \in DOMAIN prof["P1"].mem.slots \cap DOMAIN prof["P2"].mem.slots :
        /\ prof["P1"].tab
        /\ prof["P1"].dirs[s].active.st = "ok"
        /\ prof["P2"].dirs[s].active.st = "ok"
        /\ prof["P1"].dirs[s] # prof["P2"].dirs[s]
        /\ C_CopyFlow("P1", "P2", s, TRUE).ret = "Copied"
        /\ C_CopyFlow("P1", "P2", s, TRUE).S["P2"].dirs[s] = prof["P1"].dirs[s]

\* _create_new_slot and initialize_from_game_save, run from the current state
C_CreateEmpty(p) == ui_create_new_slot(Run(prof, 0), p, "n1")
C_Initialize(p) == initialize_from_game_save(Run(prof, 0), p, "n1", now)

\* C17: creating an empty slot adds one record without timestamp and with
\* no backups and leaves active_slot_uuid and the live files alone;
\* initialize_from_game_save on a live save adds one slot with a
\* timestamp, whose active_save.zip holds the live files, and makes it the
\* active slot
C17_CreateAndInitialize ==
    \A p \in Operated :
        LET old == prof[p]
            C == C_CreateEmpty(p)
            I == C_Initialize(p)
        IN /\ ~C.over =>
                 /\ C.ok
                 /\ \E s \in SlotIds \ DOMAIN old.mem.slots :
                        /\ C.S[p].mem.slots =
                               Put(old.mem.slots, s,
                                   [name |-> "n1", counter |-> InitialCounter,
                                    backups |-> NoBackups, ts |-> NoTs])
                        /\ LoadMetadata(C.S[p].doc).slots = C.S[p].mem.slots
                 /\ C.S[p].mem.active = old.mem.active
                 /\ C.S[p].live = old.live
                 /\ C.S[p].dirs = old.dirs
           /\ (HasActiveSaveFile(old) /\ ~I.over) =>
                 /\ I.ok
                 /\ \E s \in SlotIds \ DOMAIN old.mem.slots :
                        /\ DOMAIN I.S[p].mem.slots = DOMAIN old.mem.slots \cup {s}
                        /\ I.S[p].mem.slots[s].ts = now
                        /\ I.S[p].mem.slots[s].ts # NoTs
                        /\ I.S[p].mem.slots[s].backups = NoBackups
                        /\ I.S[p].dirs[s].active = OkArchive(old.live)
                        /\ I.S[p].mem.active = s
                        /\ LoadMetadata(I.S[p].doc) = I.S[p].mem
                 /\ I.S[p].live = old.live

\* a profile with a loaded slot and live files, gamedata.binbak included,
\* and an identifier left for a new slot
C17_Witness ==
    \E p \in Operated :
        /\ prof[p].tab
        /\ prof[p].mem.active # NoSlot
        /\ prof[p].live["gamedata.bin"] = "c2"
        /\ prof[p].live["gamedata.binbak"] # Absent
        /\ ~C_CreateEmpty(p).over /\ C_CreateEmpty(p).ok
        /\ ~C_Initialize(p).over /\ C_Initialize(p).ok
        /\ C_Initialize(p).S[p].mem.active # prof[p].mem.active

\* the file entries of an archive, in archive order
C_FileEntries(z) == SelectSeq(ZipEntries(z), LAMBDA e : ~e.dir)

\* C18: pre_install_check changes nothing and returns the file entries
\* outside ~mods whose directory does not exist: none for an archive with
\* entries under ~mods only, the one offending path for an archive with
\* one entry in a missing directory
C18_PreInstallCheck ==
    \A z \in Zips :
        LET P == pre_install_check(game, z)
            F == C_FileEntries(z)
        IN /\ Range(P) = {F[i].path : i \in {j \in DOMAIN F :
                              /\ F[j].path # PMods
                              /\ DirOf(F[j].path) \notin game.dirs}}
           /\ Len(P) = Cardinality(Range(P))
           /\ (\A i \in DOMAIN F : F[i].path = PMods) => P = <<>>
           /\ (z = "alt/A.zip" /\ ExtraDir \notin game.dirs) => P = <<PExtra>>
           /\ P # <<>> =>
                  ui_select_mod_file(Run(game, 0), z, FALSE, FALSE)
                      = Ret(Run(game, 0), "Declined")

\* with mods installed and ~mods present, the warning for alt/A.zip, whose
\* entry goes to the missing directory Extra, was declined
C18_Witness ==
    /\ last.op = "install" /\ last.m = "alt/A.zip" /\ last.res = "Declined"
    /\ game.mods # <<>>
    /\ UserModsDir \in game.dirs
    /\ pre_install_check(game, "alt/A.zip") = <<PExtra>>
    /\ pre_install_check(game, "A.zip") = <<>>

\* C19: a successful install_mod writes every file entry at its path,
\* creates ~mods when an entry needs it, appends one entry with status
\* enabled whose files are the entries written, in archive order, and
\* persists the manifest with it
C19_SuccessfulInstall ==
    [][(last'.op = "install" /\ last'.res = "Installed")
          => LET z == last'.m
                 F == C_FileEntries(z)
             IN /\ \A i \in DOMAIN F : game'.tree[<<F[i].path, "">>] = F[i].c
                /\ \A fn \in FileNames :
                       (fn[2] # "" \/ \A i \in DOMAIN F : F[i].path # fn[1])
                           => game'.tree[fn] = game.tree[fn]
                /\ \A i \in DOMAIN F : DirOf(F[i].path) \in game'.dirs
                /\ game'.mods =
                       Append(game.mods,
                              [name |-> ZipName(z), status |-> "enabled",
                               files |-> [i \in DOMAIN F |-> F[i].path]])
                /\ game'.manifest = [st |-> "ok", v |-> game'.mods]]_vars

\* B.zip was installed after another mod: its two files are in place and
\* its entry, second in the registry, lists them in archive order
C19_Witness ==
    /\ last.op = "install" /\ last.m = "B.zip" /\ last.res = "Installed"
    /\ Len(game.mods) = 2
    /\ game.mods[2] = [name |-> "B", status |-> "enabled", files |-> <<PPaks, PMods>>]
    /\ game.tree[<<PPaks, "">>] = "B.zip"
    /\ game.tree[<<PMods, "">>] = "B.zip"
    /\ game.manifest.v = game.mods

\* the persisted document of every profile that has a manager reads back
\* as the manager's metadata
C_Persisted(P) == LoadMetadata(P.doc) = P.mem

C_Names == SlotNames \cup NewNames
C_BackupNames == {<<"Backup", c>> : c \in 1..MaxCounter} \cup NewBackupNames
C_BackupRecords == [ts : 1..MaxTime, name : C_BackupNames]
C_BackupMaps == UNION {[B -> C_BackupRecords] : B \in SUBSET (1..MaxBackups)}
C_SlotRecords == [name : C_Names, counter : 1..MaxCounter, ts : 0..MaxTime,
                  backups : C_BackupMaps]
C_SlotMaps == UNION {[S -> C_SlotRecords] : S \in SUBSET (1..MaxSlotsNarrow)}
\* the well-formed metadata values within the bounds
C_Metadata == {m \in [active : 0..MaxSlotsNarrow, slots : C_SlotMaps] :
                  C_ActiveSlotValid(m)}

C_RoundTrip == \A x \in C_Metadata : JsonLoad(JsonDump(x)) = x

C21_MissingOrUnparsableIsDefault ==
    /\ \A p \in Profiles :
           prof[p].doc.st # "ok" =>
               LET R == OpenProfile(Run(prof, 0), p)
               IN /\ R.ok
                  /\ R.S[p].mem = DefaultMetadata
                  /\ R.S[p].doc = prof[p].doc
                  /\ R.S[p].dirs = prof[p].dirs
                  /\ R.S[p].live = prof[p].live
    /\ game.manifest.st # "ok" =>
           LET G == OpenGame(Run(game, 0))
           IN /\ G.ok
              /\ G.S.mods = <<>>
              /\ G.S.manifest = game.manifest
              /\ G.S.tree = game.tree

\* the same, for documents that are missing or are text that is not JSON
C21_MissingOrTruncatedIsDefault ==
    /\ \A p \in Profiles :
           prof[p].doc.st \in {"none", "bad"} =>
               LET R == OpenProfile(Run(prof, 0), p)
               IN /\ R.ok
                  /\ R.S[p].mem = DefaultMetadata
                  /\ R.S[p].doc = prof[p].doc
                  /\ R.S[p].dirs = prof[p].dirs
                  /\ R.S[p].live = prof[p].live
    /\ game.manifest.st \in {"none", "bad"} =>
           LET G == OpenGame(Run(game, 0))
           IN /\ G.ok
              /\ G.S.mods = <<>>
              /\ G.S.manifest = game.manifest
              /\ G.S.tree = game.tree

\* C22: for the loaded slot of a profile, save_active_game_state with a
\* live gamedata.bin makes the slot's active_save.zip hold exactly the live
\* save files and sets active_save_timestamp; with no gamedata.bin it
\* changes nothing
C22_SaveActiveArchivesLive ==
    \A p \in Profiles :
        (prof[p].tab /\ prof[p].mem.active # NoSlot) =>
            LET s == prof[p].mem.active
                R == save_active_game_state(Run(prof, 0), p, s, now)
            IN IF HasActiveSaveFile(prof[p])
               THEN /\ R.ok
                    /\ R.S[p].dirs[s].active = OkArchive(LiveSaveFiles(prof[p]))
                    /\ R.S[p].mem.slots[s].ts = now
                    /\ LoadMetadata(R.S[p].doc) = R.S[p].mem
               ELSE R.ok /\ R.S = prof

\* what C23 says of create_new_backup(s, name) called in state S of
\* profile p at time t, R being the run that results
C_BackupAdded(S, R, p, s, name, t) ==
    IF HasActiveSaveFile(S[p])
    THEN /\ R.ok /\ R.ret = "True"
         /\ \E b \in BackupIds \ DOMAIN S[p].mem.slots[s].backups :
                /\ R.S[p].mem.slots[s].backups =
                       Put(S[p].mem.slots[s].backups, b, [ts |-> t, name |-> name])
                /\ S[p].dirs[s].bk[b] = NoArchive
                /\ R.S[p].dirs[s].bk[b] = OkArchive(LiveSaveFiles(S[p]))
                /\ \A c \in BackupIds \ {b} : R.S[p].dirs[s].bk[c] = S[p].dirs[s].bk[c]
         /\ R.S[p].dirs[s].active = S[p].dirs[s].active
         /\ R.S[p].mem.slots[s].counter = S[p].mem.slots[s].counter + 1
         /\ R.S[p].mem.slots[s].ts = S[p].mem.slots[s].ts
         /\ R.S[p].mem.slots[s].name = S[p].mem.slots[s].name
         /\ R.S[p].mem.active = S[p].mem.active
         /\ R.S[p].live = S[p].live
         /\ DOMAIN R.S[p].mem.slots = DOMAIN S[p].mem.slots
         /\ \A s2 \in DOMAIN S[p].mem.slots \ {s} :
                /\ R.S[p].mem.slots[s2] = S[p].mem.slots[s2]
                /\ R.S[p].dirs[s2] = S[p].dirs[s2]
         /\ LoadMetadata(R.S[p].doc) = R.S[p].mem
    ELSE R.ok /\ R.ret = "False" /\ R.S = S

\* C23: create_new_backup on any slot of the metadata, with a live
\* gamedata.bin, adds one backup entry under a fresh id, writes one
\* archive of the live save files, adds 1 to backup_counter and leaves the
\* rest alone; without a live gamedata.bin it returns False and changes
\* nothing
C23_CreateBackup ==
    \A p \in Profiles : prof[p].tab =>
        \A s \in DOMAIN prof[p].mem.slots :
            LET name == <<"Backup", prof[p].mem.slots[s].counter>>
                R == create_new_backup(Run(prof, 0), p, s, name, now)
            IN R.over \/ C_BackupAdded(prof, R, p, s, name, now)

\* the same, for the slots that have a directory
C23_CreateBackupInSlotDir ==
    \A p \in Profiles : prof[p].tab =>
        \A s \in DOMAIN prof[p].mem.slots : prof[p].dirs[s].exists =>
            LET name == <<"Backup", prof[p].mem.slots[s].counter>>
                R == create_new_backup(Run(prof, 0), p, s, name, now)
            IN R.over \/ C_BackupAdded(prof, R, p, s, name, now)

\* the backups a profile can activate: (slot, backup) pairs of its metadata
C_BackupPairs(p) == {sb \in SlotIds \X BackupIds :
                        /\ sb[1] \in DOMAIN prof[p].mem.slots
                        /\ sb[2] \in DOMAIN prof[p].mem.slots[sb[1]].backups}

\* C24: after _activate_backup of backup b of slot s, with the game not
\* running, s is the active slot, the live files hold b's content, the
\* active_save.zip of s holds exactly the live save files, the
\* active_save_timestamp of s is the time of the restore, and b's archive,
\* name and timestamp are as before; without the optional backup of the
\* current progress the handler completes
C24_ActivateBackup ==
    \A p \in Profiles : prof[p].tab =>
        \A sb \in C_BackupPairs(p), backupFirst \in BOOLEAN :
            LET s == sb[1]
                b == sb[2]
                B == prof[p].dirs[s].bk[b]
                R == ui_activate_backup(Run(prof, 0), p, s, b, backupFirst, now, FALSE)
                Q == R.S[p]
            IN /\ ~backupFirst => R.ok
               /\ (R.ok /\ ~R.over) =>
                      /\ R.ret = "Activated"
                      /\ Q.mem.active = s
                      /\ \A f \in SaveFiles : B.c[f] # Absent => Q.live[f] = B.c[f]
                      /\ HasActiveSaveFile(Q)
                      /\ Q.dirs[s].active = OkArchive(LiveSaveFiles(Q))
                      /\ Q.mem.slots[s].ts = now
                      /\ Q.dirs[s].bk[b] = B
                      /\ Q.mem.slots[s].backups[b] = prof[p].mem.slots[s].backups[b]
                      /\ LoadMetadata(Q.doc) = Q.mem

\* a backup taken at an earlier time was activated over a different live
\* save: the slot's timestamp is the later time of the restore
C24_Witness ==
    /\ last.op = "activate" /\ last.res = "Activated"
    /\ prof["P1"].mem.active = last.s
    /\ \E b \in DOMAIN prof["P1"].mem.slots[last.s].backups :
           /\ prof["P1"].mem.slots[last.s].backups[b].ts = 1
           /\ prof["P1"].mem.slots[last.s].ts = 2
           /\ prof["P1"].dirs[last.s].bk[b].c = prof["P1"].live
           /\ prof["P1"].dirs[last.s].active = prof["P1"].dirs[last.s].bk[b]

\* C25: _activate_backup does not clear the live directory: a live save
\* file that the backup archive does not hold is still there after the
\* restore, and is in the slot's new active_save.zip
C25_ActivateKeepsStaleFiles ==
    \A p \in Profiles : prof[p].tab =>
        \A sb \in C_BackupPairs(p), backupFirst \in BOOLEAN :
            LET s == sb[1]
                b == sb[2]
                B == prof[p].dirs[s].bk[b]
                R == ui_activate_backup(Run(prof, 0), p, s, b, backupFirst, now, FALSE)
                Q == R.S[p]
            IN (R.ok /\ ~R.over) =>
                   \A f \in SaveFiles :
                       (IsSaveFile(f) /\ prof[p].live[f] # Absent /\ B.c[f] = Absent) =>
                           /\ Q.live[f] = prof[p].live[f]
                           /\ Q.dirs[s].active.st = "ok"
                           /\ Q.dirs[s].active.c[f] = prof[p].live[f]

\* a backup without gamedata.binbak was activated while a live
\* gamedata.binbak existed: the file is still live and is in active_save.zip
C25_Witness ==
    /\ last.op = "activate" /\ last.res = "Activated"
    /\ \E b \in BackupIds :
           /\ prof["P1"].dirs[last.s].bk[b].st = "ok"
           /\ prof["P1"].dirs[last.s].bk[b].c["gamedata.binbak"] = Absent
           /\ prof["P1"].dirs[last.s].bk[b].c["gamedata.bin"] = prof["P1"].live["gamedata.bin"]
    /\ prof["P1"].live["gamedata.binbak"] # Absent
    /\ prof["P1"].dirs[last.s].active.c["gamedata.binbak"] = prof["P1"].live["gamedata.binbak"]

\* C26: load_active_save_for_slot on a slot with active_save.zip removes
\* the live save files, makes the live files the archive's content, sets
\* active_slot_uuid to the slot and persists, and changes no archive; on a
\* slot without active_save.zip it returns False and changes nothing
C26_LoadActiveSave ==
    \A p \in Profiles : prof[p].tab =>
        \A s \in DOMAIN prof[p].mem.slots :
            LET A == prof[p].dirs[s].active
                R == load_active_save_for_slot(Run(prof, 0), p, s)
                Q == R.S[p]
            IN IF A.st = "none"
               THEN R.ok /\ R.ret = "False" /\ R.S = prof
               ELSE /\ R.ok /\ R.ret = "True"
                    /\ Q.live = A.c
                    /\ Q.mem = [prof[p].mem EXCEPT !.active = s]
                    /\ LoadMetadata(Q.doc) = Q.mem
                    /\ Q.dirs = prof[p].dirs
                    /\ \A q \in Profiles \ {p} : R.S[q] = prof[q]

\* a slot whose archive has no gamedata.binbak was loaded over the live
\* files of another slot, which had a gamedata.binbak: the file is gone
C26_Witness ==
    /\ last.op = "load" /\ last.res = "True"
    /\ prof["P1"].mem.active = last.s
    /\ prof["P1"].dirs[last.s].active.st = "ok"
    /\ prof["P1"].live = prof["P1"].dirs[last.s].active.c
    /\ prof["P1"].live["gamedata.binbak"] = Absent
    /\ \E s \in DOMAIN prof["P1"].mem.slots :
           /\ s # last.s
           /\ prof["P1"].dirs[s].active.st = "ok"
           /\ prof["P1"].dirs[s].active.c["gamedata.binbak"] # Absent

\* what C27 says of the run R of _load_active_save_for_slot(s) in profile p
C_EmptySlotLoaded(R, p, s) ==
    /\ R.ok /\ R.ret = "Cleared"
    /\ \A f \in SaveFiles : IsSaveFile(f) => R.S[p].live[f] = Absent
    /\ R.S[p].mem.active = s
    /\ R.S[p].mem.slots[s].ts = NoTs
    /\ LoadMetadata(R.S[p].doc) = R.S[p].mem
    /\ \A s2 \in SlotIds \ {R.S[p].mem.active, prof[p].mem.active} :
           R.S[p].dirs[s2] = prof[p].dirs[s2]

\* C27: _load_active_save_for_slot on a slot without active_save.zip, with
\* the game not running, ends with no live save file, active_slot_uuid
\* equal to the slot, no active_save_timestamp on the slot, and
\* metadata.json holding the metadata
C27_LoadEmptySlot ==
    \A p \in Profiles : (prof[p].tab /\ ~isGameRunning) =>
        \A s \in DOMAIN prof[p].mem.slots :
            prof[p].dirs[s].active.st = "none" =>
                C_EmptySlotLoaded(
                    ui_load_active_save_for_slot(Run(prof, 0), p, s, now, isGameRunning),
                    p, s)

\* the same, when the slot loaded before has a directory or there is no
\* live gamedata.bin to save into it
C27_LoadEmptySlotFromSavable ==
    \A p \in Profiles : (prof[p].tab /\ ~isGameRunning) =>
        \A s \in DOMAIN prof[p].mem.slots :
            (/\ prof[p].dirs[s].active.st = "none"
             /\ \/ prof[p].mem.active \in {NoSlot, s}
                \/ ~HasActiveSaveFile(prof[p])
                \/ prof[p].dirs[prof[p].mem.active].exists) =>
                C_EmptySlotLoaded(
                    ui_load_active_save_for_slot(Run(prof, 0), p, s, now, isGameRunning),
                    p, s)

\* C28: a confirmed _delete_slot that is not blocked removes the slot's
\* directory and its metadata entry and persists; when the slot was the
\* loaded one the live save files are removed and active_slot_uuid is
\* None, otherwise live files and active_slot_uuid are as before; the
\* records and directories of the other slots are as before
C28_DeleteSlot ==
    [][(last'.op = "delete_slot" /\ last'.res = "Deleted") =>
          \A p \in Operated :
              LET s == last'.s
                  old == prof[p]
                  new == prof'[p]
              IN /\ s \in DOMAIN old.mem.slots
                 /\ new.dirs[s] = NoDir
                 /\ DOMAIN new.mem.slots = DOMAIN old.mem.slots \ {s}
                 /\ LoadMetadata(new.doc) = new.mem
                 /\ IF old.mem.active = s
                    THEN /\ new.mem.active = NoSlot
                         /\ \A f \in SaveFiles : IsSaveFile(f) => new.live[f] = Absent
                    ELSE /\ new.mem.active = old.mem.active
                         /\ new.live = old.live
                 /\ \A s2 \in SlotIds \ {s} :
                        /\ new.dirs[s2] = old.dirs[s2]
                        /\ s2 \in DOMAIN old.mem.slots =>
                               new.mem.slots[s2] = old.mem.slots[s2]]_vars

\* a slot that was not the loaded one was deleted while the game ran: the
\* loaded slot, its archive and the live save are still there
C28_Witness ==
    /\ last.op = "delete_slot" /\ last.res = "Deleted"
    /\ isGameRunning
    /\ prof["P1"].dirs[last.s] = NoDir
    /\ last.s \notin DOMAIN prof["P1"].mem.slots
    /\ prof["P1"].mem.active \in DOMAIN prof["P1"].mem.slots
    /\ prof["P1"].dirs[prof["P1"].mem.active].active.st = "ok"
    /\ HasActiveSaveFile(prof["P1"])

\* the mod names the archives give
C_ModNames == {ZipName(z) : z \in Zips}

\* C29: after delete_mod of a registered mod no file is left at a tracked
\* path or at its .disabled variant, whatever the status and whichever
\* files were missing, and the mod is in neither the registry nor the
\* persisted manifest; delete_mod and toggle_mod_status of a name that is
\* not registered change nothing
C29_DeleteMod ==
    \A name \in C_ModNames :
        LET D == delete_mod(Run(game, 0), name)
            T == toggle_mod_status(Run(game, 0), name)
        IN IF Registered(game, name)
           THEN LET i == ModIndex(game, name)
                    files == Range(game.mods[i].files)
                IN /\ D.ok
                   /\ \A fn \in FileNames :
                          D.S.tree[fn] = IF fn[1] \in files THEN Absent ELSE game.tree[fn]
                   /\ D.S.mods = RemoveAt(game.mods, i)
                   /\ ~Registered(D.S, name)
                   /\ D.S.manifest.st = "ok"
                   /\ LoadManifest(D.S.manifest) = D.S.mods
                   /\ D.S.dirs = game.dirs
           ELSE /\ D.ok /\ D.S = game
                /\ T.ok /\ T.ret = "False" /\ T.S = game

\* mod B was deleted while mod A, which tracks one of the same paths, is
\* registered and disabled: neither variant of B's paths is left
C29_Witness ==
    /\ last.op = "delete_mod" /\ last.m = "B" /\ last.res = "None"
    /\ ~Registered(game, "B")
    /\ Registered(game, "A")
    /\ game.mods[ModIndex(game, "A")].status = "disabled"
    /\ \A sfx \in Suffixes : game.tree[<<PMods, sfx>>] = Absent
    /\ \A sfx \in Suffixes : game.tree[<<PPaks, sfx>>] = Absent
    /\ LoadManifest(game.manifest) = game.mods

\* C30: toggle_mod_status of a registered mod flips the status and
\* persists it whether or not the tracked files are at the source name of
\* the rename; a tracked file that is at the source name ends at the other
\* name, a missing one is skipped
C30_ToggleToleratesMissing ==
    \A name \in C_ModNames : Registered(game, name) =>
        LET i == ModIndex(game, name)
            mod == game.mods[i]
            isEnabled == mod.status = "enabled"
            src == IF isEnabled THEN "" ELSE DisabledSuffix
            dst == IF isEnabled THEN DisabledSuffix ELSE ""
            T == toggle_mod_status(Run(game, 0), name)
        IN /\ T.ok /\ T.ret = "True"
           /\ T.S.mods = [game.mods EXCEPT ![i].status =
                             IF isEnabled THEN "disabled" ELSE "enabled"]
           /\ T.S.manifest = [st |-> "ok", v |-> T.S.mods]
           /\ \A f \in ModPaths :
                  IF f \in Range(mod.files) /\ game.tree[<<f, src>>] # Absent
                  THEN /\ T.S.tree[<<f, dst>>] = game.tree[<<f, src>>]
                       /\ T.S.tree[<<f, src>>] = Absent
                  ELSE /\ T.S.tree[<<f, dst>>] = game.tree[<<f, dst>>]
                       /\ T.S.tree[<<f, src>>] = game.tree[<<f, src>>]

\* mod B was disabled after mod A, which tracks ~mods/a.pak too, had moved
\* that file away: B's b.pak was renamed, the missing a.pak was skipped
C30_Witness ==
    /\ last.op = "toggle" /\ last.m = "B" /\ last.res = "True"
    /\ Registered(game, "A") /\ Registered(game, "B")
    /\ game.mods[ModIndex(game, "A")].status = "disabled"
    /\ game.mods[ModIndex(game, "B")].status = "disabled"
    /\ game.tree[<<PPaks, DisabledSuffix>>] = "B.zip"
    /\ game.tree[<<PPaks, "">>] = Absent
    /\ game.tree[<<PMods, "">>] = Absent
    /\ game.tree[<<PMods, DisabledSuffix>>] # Absent
    /\ game.manifest.v = game.mods

\* C31: the backup_counter of a slot never decreases, whatever handler
\* runs on its profile, a copy into the profile that overwrites the slot
\* included
C31_CounterNeverDecreases ==
    [][\A p \in Profiles :
           \A s \in DOMAIN prof[p].mem.slots \cap DOMAIN prof'[p].mem.slots :
               prof'[p].mem.slots[s].counter >= prof[p].mem.slots[s].counter]_vars

\* C32: when slot A is loaded with a live gamedata.bin and the user loads
\* another slot B (game not running), active_save.zip of A is first made
\* equal to the live save files, and loading A again afterwards restores
\* the live files A had
C32_SwitchKeepsProgress ==
    \A p \in Profiles : (prof[p].tab /\ ~isGameRunning) =>
        LET A == prof[p].mem.active
        IN (A \in DOMAIN prof[p].mem.slots /\ HasActiveSaveFile(prof[p])) =>
               \A B \in DOMAIN prof[p].mem.slots \ {A} :
                   LET R1 == ui_load_active_save_for_slot(Run(prof, 0), p, B, now,
                                                          isGameRunning)
                       R2 == ui_load_active_save_for_slot(Run(R1.S, 0), p, A, now,
                                                          isGameRunning)
                   IN /\ R1.ok
                      /\ R1.S[p].mem.active = B
                      /\ R1.S[p].dirs[A].active = OkArchive(LiveSaveFiles(prof[p]))
                      /\ R2.ok
                      /\ R2.S[p].mem.active = A
                      /\ R2.S[p].live = prof[p].live

\* the same, when the loaded slot has a directory
C32_SwitchKeepsProgressInSlotDir ==
    \A p \in Profiles : (prof[p].tab /\ ~isGameRunning) =>
        LET A == prof[p].mem.active
        IN (/\ A \in DOMAIN prof[p].mem.slots
            /\ HasActiveSaveFile(prof[p])
            /\ prof[p].dirs[A].exists) =>
               \A B \in DOMAIN prof[p].mem.slots \ {A} :
                   LET R1 == ui_load_active_save_for_slot(Run(prof, 0), p, B, now,
                                                          isGameRunning)
                       R2 == ui_load_active_save_for_slot(Run(R1.S, 0), p, A, now,
                                                          isGameRunning)
                   IN /\ R1.ok
                      /\ R1.S[p].mem.active = B
                      /\ R1.S[p].dirs[A].active = OkArchive(LiveSaveFiles(prof[p]))
                      /\ R2.ok
                      /\ R2.S[p].mem.active = A
                      /\ R2.S[p].live = prof[p].live

\* the tracked file f of the mod entry is where the mod's status says
C_OnDisk(G, mod, f) ==
    G.tree[<<f, IF mod.status = "enabled" THEN "" ELSE DisabledSuffix>>] # Absent

\* C33: after any sequence of installs, toggles and deletes, every tracked
\* file of an enabled mod is at its canonical path and every tracked file
\* of a disabled mod is at its .disabled path, also when two mods track the
\* same path
C33_StatusMatchesDisk ==
    \A i \in DOMAIN game.mods :
        \A f \in Range(game.mods[i].files) : C_OnDisk(game, game.mods[i], f)

\* the same, for the tracked paths that no second archive writes
C33_StatusMatchesDiskUnshared ==
    \A i \in DOMAIN game.mods :
        \A f \in Range(game.mods[i].files) \ {PMods} : C_OnDisk(game, game.mods[i], f)

\* C34: after copy_slot_to the destination's record of the slot, in memory
\* and in metadata.json, is independent of the source: renaming the slot or
\* creating a backup of it in the source manager leaves the destination
\* manager's in-memory record and its persisted record as the copy made them
C34_CopyIsIndependent ==
    \A src \in Profiles : \A dst \in Profiles \ {src} :
        \A s \in DOMAIN prof[src].mem.slots :
            LET R1 == copy_slot_to(Run(prof, 0), src, dst, s)
                R2 == ui_rename_slot(Run(R1.S, 0), src, s, "n2")
                R3 == create_new_backup(Run(R1.S, 0), src, s, <<"n2", 0>>, now)
            IN R1.ok =>
                   /\ s \in DOMAIN R1.S[dst].mem.slots
                   /\ R1.S[dst].mem.slots[s] = prof[src].mem.slots[s]
                   /\ \A R \in {R2, R3} :
                          /\ R.S[dst].mem.slots[s] = R1.S[dst].mem.slots[s]
                          /\ LoadMetadata(R.S[dst].doc) = LoadMetadata(R1.S[dst].doc)

\* C34, the part that holds: what the copy persisted in the destination's
\* metadata.json is untouched by later changes in the source manager
C34_PersistedCopyIsIndependent ==
    \A src \in Profiles : \A dst \in Profiles \ {src} :
        \A s \in DOMAIN prof[src].mem.slots :
            LET R1 == copy_slot_to(Run(prof, 0), src, dst, s)
                R2 == ui_rename_slot(Run(R1.S, 0), src, s, "n2")
                R3 == create_new_backup(Run(R1.S, 0), src, s, <<"n2", 0>>, now)
            IN R1.ok =>
                   /\ LoadMetadata(R1.S[dst].doc).slots[s] = prof[src].mem.slots[s]
                   /\ \A R \in {R2, R3} :
                          LoadMetadata(R.S[dst].doc) = LoadMetadata(R1.S[dst].doc)

\* C34, in the application: _copy_slot rebuilds every manager from
\* metadata.json before it returns, so between handlers no record is held
\* by two managers
C34_NoSharedRecordBetweenHandlers ==
    \A p \in Profiles : prof[p].shared = {}

\* the I/O operation of a run that fails: none, the first or the second
C_EacFailures == 0..2

\* C36: apply_eac_bypass followed by remove_eac_bypass leaves EACLauncher.exe
\* with its original content and no backup file; apply on a bypassed
\* installation and remove on one that is not bypassed return success and
\* change nothing; an apply whose copy fails after the launcher was moved to
\* the backup name moves it back, so that is_eac_bypassed() is false and
\* the original launcher is in place
C36_EacBypassRoundTrip ==
    /\ ~is_eac_bypassed(game) =>
           LET R1 == apply_eac_bypass(Run(game, 0), FALSE)
               R2 == remove_eac_bypass(Run(R1.S, 0))
           IN /\ R1.ok /\ R2.ok /\ R2.ret = "Success"
              /\ R1.ret = "Success" /\ game.exe.path => is_eac_bypassed(R1.S)
              /\ R2.S = game
    /\ \A k \in C_EacFailures, partial \in BOOLEAN :
           /\ is_eac_bypassed(game) =>
                  LET R == apply_eac_bypass(Run(game, k), partial)
                  IN R.ok /\ R.ret = "Success" /\ R.S = game /\ R.inj = "none"
           /\ ~is_eac_bypassed(game) =>
                  LET R == remove_eac_bypass(Run(game, k))
                  IN R.ok /\ R.ret = "Success" /\ R.S = game /\ R.inj = "none"
    /\ \A partial \in BOOLEAN :
           LET R == apply_eac_bypass(Run(game, 2), partial)
           IN R.inj = "copy" =>
                  /\ R.ok /\ R.ret = "Failed"
                  /\ ~is_eac_bypassed(R.S)
                  /\ R.S = game

\* C36 in the handler: a switch-on that ended in failure left the game
\* directory as it was, and a successful switch-off after a successful
\* switch-on restores the launcher
C36_ToggleStep ==
    [][/\ last'.op = "eac_on" /\ last'.res \in {"Failed", "NotFound"} => game' = game
       /\ last'.op = "eac_on" /\ last'.res = "Success" /\ game.exe.path =>
              /\ is_eac_bypassed(game')
              /\ ~is_eac_bypassed(game) =>
                     /\ game'.exe.backup = game.exe.launcher
                     /\ game'.exe.launcher = game.exe.game
       /\ last'.op = "eac_off" /\ last'.res = "Success" =>
              /\ ~is_eac_bypassed(game')
              /\ is_eac_bypassed(game) =>
                     /\ game'.exe.launcher = game.exe.backup
                     /\ game'.exe.backup = Absent]_vars

\* the bypass was applied and removed again, and an apply failed in its copy
\* and left the original launcher in place
C36_Witness ==
    /\ last.op = "eac_on" /\ last.res = "Failed" /\ last.io = "copy"
    /\ game.exe.launcher = Launcher /\ game.exe.backup = Absent
    /\ game.exe.game = GameExe

\* one poll is pending, with the delay its last run chose
C_OnePollScheduled ==
    /\ Len(poll'.timers) = 1
    /\ last'.op = "poll" =>
           poll'.timers = <<IF poll'.it = NoIterator THEN LongDelay ELSE ShortDelay>>

\* is_game_running changes in a poll that completed its scan, to whether the
\* scan saw the game process
C_FlagFollowsScan ==
    isGameRunning' # isGameRunning =>
        /\ last'.op = "poll"
        /\ poll'.it = NoIterator
        /\ isGameRunning' = poll'.found
        /\ isGameRunning' = (poll'.snap # NotRunning)

\* the controls of the mod tab after a change of the flag
C_ModControlsFollow ==
    isGameRunning' # isGameRunning =>
        /\ ui'.mods = ~isGameRunning'
        /\ ui'.install = ~isGameRunning'

\* the load, copy and create-backup buttons of tab p are disabled
C_SaveControlsOff(U, p) == ~U.btn[p].load /\ ~U.btn[p].copy /\ ~U.btn[p].backup

\* the buttons of tab p are as _on_slot_selected sets them for its selected
\* slot
C_SaveControlsFresh(U, p, running) ==
    U.sel[p] # NoSlot => U.btn[p] = on_slot_selected(U, prof, p, U.sel[p], running).btn[p]

\* C35: exactly one next poll is scheduled at all times, 10 ms after a
\* partial batch and 2000 ms after a completed scan; is_game_running changes
\* only when a scan completes, to whether the game process was seen in it;
\* every change of the flag leaves the load, copy, create-backup, mod toggle,
\* mod delete and install controls disabled when the game runs and
\* re-enabled when it does not
C35_PollLocksControls ==
    [][/\ C_OnePollScheduled
       /\ C_FlagFollowsScan
       /\ C_ModControlsFollow
       /\ isGameRunning' # isGameRunning =>
              \A p \in Profiles :
                  /\ isGameRunning' => C_SaveControlsOff(ui', p)
                  /\ C_SaveControlsFresh(ui', p, isGameRunning')]_vars

\* C35, the part that holds: the schedule, the flag, the mod controls and
\* the save controls of the tab that is shown
C35_PollLocksShownControls ==
    [][/\ C_OnePollScheduled
       /\ C_FlagFollowsScan
       /\ C_ModControlsFollow
       /\ isGameRunning' # isGameRunning /\ ui.cur # NoTab =>
              /\ isGameRunning' => C_SaveControlsOff(ui', ui.cur)
              /\ C_SaveControlsFresh(ui', ui.cur, isGameRunning')]_vars

====
